---- MODULE Spec2Model ----
(***************************************************************************)
(* Verification model of the NBT tree model of nbt-web-explorer            *)
(* (lib/nbt/parser.ts, lib/nbt/types.ts) and of the editor hook that       *)
(* drives it (hooks/use-nbt-editor.ts).                                    *)
(*                                                                         *)
(* JavaScript values are modelled as records tagged with their runtime     *)
(* shape (field k): a number, a Compound object (a map from key to tag),   *)
(* a List object ({type, value[]}) or undefined.  A tag is the record      *)
(* [type, value] of types.ts.  A tree node is the record                   *)
(* [id, name, type, value, path, children]; the parent back-reference is   *)
(* navigation only and is left out, and a node whose children field is     *)
(* undefined carries the empty sequence (every reader in the source uses   *)
(* `children?.` or `children || []`, which treat the two alike).           *)
(***************************************************************************)
EXTENDS Integers, Sequences, FiniteSets, TLC

VARIABLES tree, nodeIdCounter, call, edits, heap, heapRoot, versions, retired,
          fileInfo, isRegion, modified, clipboard, cutNodeRef, loads, latest,
          save, modifiedFiles, editor, edited, zip

heapVars == <<heap, heapRoot, versions>>
\* the rest of the state of useNbtEditor and the loadFile calls in flight
hookVars == <<fileInfo, isRegion, modified>>
clipVars == <<clipboard, cutNodeRef>>
\* the save store, the editor open in the save-folder view, the download
zipVars == <<save, modifiedFiles, editor, edited, zip>>
\* what the functions of parser.ts and the value model leave alone
otherVars == <<retired, hookVars, clipVars, loads, latest, zipVars>>
vars == <<tree, nodeIdCounter, call, edits, heap, heapRoot, versions, otherVars>>

(***************************************************************************)
(* Bounds of the model.                                                    *)
(***************************************************************************)
\* number of edits the editor makes on a loaded document in one run
MaxEdits == 2
\* number of bits of one of the two words a 64-bit integer is split into
\* (the 32 of `>> BigInt(32)`, `2 ** 32` and `0xffffffff`), scaled down
WordBits == 4

\* chunks along one side of a Region, the 32 of the source, scaled down
RegionWidth == 2

(***************************************************************************)
(* types.ts: enum TagType (the kinds the model uses).                      *)
(***************************************************************************)
TagType_End == 0
TagType_Byte == 1
TagType_Short == 2
TagType_Int == 3
TagType_Long == 4
TagType_Float == 5
TagType_Double == 6
TagType_ByteArray == 7
TagType_String == 8
TagType_List == 9
TagType_Compound == 10
TagType_IntArray == 11
TagType_LongArray == 12

(***************************************************************************)
(* Runtime values.                                                         *)
(***************************************************************************)
Num(n) == [k |-> "number", v |-> n]
CompoundValue(f) == [k |-> "compound", v |-> f]
ListValue(t, s) == [k |-> "list", v |-> [type |-> t, value |-> s]]
undefined == [k |-> "undefined", v |-> 0]
NbtTag(t, v) == [type |-> t, value |-> v]
\* compound[key] of a missing key is undefined; it is kept tag-shaped (with
\* no kind) so that every entry of a compound can be compared
undefinedTag == [type |-> -1, value |-> undefined]
EmptyCompound == CompoundValue([n \in {} |-> undefined])

\* findNodeByPath's "not found" result
null == [null |-> TRUE]

(***************************************************************************)
(* Names.  rootName is the name parseNbtFile gives an unnamed root.        *)
(* The order of NameOrder is the order localeCompare puts these names in   *)
(* (punctuation, digits, then letters); "b (1)" is the name pasteNode      *)
(* gives a second "b".                                                     *)
(***************************************************************************)
rootName == "Data"
NameOrder ==
  <<"-1", "0", "0 (1)", "0 (2)", "0 (3)", "1", "1 (1)", "1 (2)",
    "1 (3)", "2", "2 (1)", "2 (2)", "2 (3)", "3", "4", "a",
    "b", "b (1)", "b (2)", "b (3)", "c", "c (1)", "c (2)", "c (3)",
    "Chunk [0, 0]", "Chunk [1, 0]", "d", "d (1)", "d (2)", "d (3)", "l", "l (1)",
    "l (2)", "l (3)", "m", "m (1)", "m (2)", "m (3)", "x", "z",
    "Data", "Data (1)", "Data (2)", "Data (3)", "Wrong">>
Names == {NameOrder[i] : i \in 1..Len(NameOrder)}

Rank(s) == CHOOSE i \in 1..Len(NameOrder) : NameOrder[i] = s

\* String.prototype.localeCompare: negative, zero or positive
localeCompare(a, b) == Rank(a) - Rank(b)

\* `${clipboard.name} (${counter})`
pastedName(name, counter) == name \o " (" \o ToString(counter) \o ")"

\* parseInt(name): [nan, n]; the digits a name starts with count
parseInt(s) ==
  IF s = "-1" THEN [nan |-> FALSE, n |-> -1]
  ELSE IF \E i \in 0..4 : ToString(i) = s
       THEN [nan |-> FALSE, n |-> CHOOSE i \in 0..4 : ToString(i) = s]
       ELSE IF \E i \in 0..4, k \in 1..3 : pastedName(ToString(i), k) = s
       THEN [nan |-> FALSE,
             n |-> CHOOSE i \in 0..4 : \E k \in 1..3 : pastedName(ToString(i), k) = s]
       ELSE [nan |-> TRUE, n |-> 0]

\* String(index)
String(i) == ToString(i)

(***************************************************************************)
(* Sequence helpers standing for the Array methods the source calls.       *)
(***************************************************************************)
\* Array.prototype.slice(0, n)
slice(s, n) == SubSeq(s, 1, n)

\* Array.prototype.splice(index, 1) with index = parseInt(...): NaN counts
\* as 0, a negative index counts from the end, an index past the end
\* removes nothing.
splice(s, index) ==
  LET len == Len(s)
      rel == IF index.nan THEN 0 ELSE index.n
      start == IF rel < 0 THEN (IF len + rel > 0 THEN len + rel ELSE 0)
               ELSE (IF rel < len THEN rel ELSE len)
  IN IF start < len
     THEN SubSeq(s, 1, start) \o SubSeq(s, start + 2, len)
     ELSE s

\* Array.prototype.filter
RECURSIVE filterOutName(_, _)
filterOutName(children, nodeName) ==
  IF children = <<>> THEN <<>>
  ELSE IF Head(children).name # nodeName
       THEN <<Head(children)>> \o filterOutName(Tail(children), nodeName)
       ELSE filterOutName(Tail(children), nodeName)

\* Array.prototype.sort((a, b) => a.name.localeCompare(b.name)): stable
RECURSIVE insertByName(_, _)
insertByName(sorted, node) ==
  IF sorted = <<>> THEN <<node>>
  ELSE IF localeCompare(Head(sorted).name, node.name) <= 0
       THEN <<Head(sorted)>> \o insertByName(Tail(sorted), node)
       ELSE <<node>> \o sorted

\* the children left in the order they were pushed in
sortByName_Unsorted(children) == children

RECURSIVE sortByName(_)
sortByName(children) ==
  IF children = <<>> THEN <<>>
  ELSE insertByName(sortByName(SubSeq(children, 1, Len(children) - 1)),
                    children[Len(children)])

\* Object.entries(compound).sort(([a], [b]) => a.localeCompare(b)): the keys
RECURSIVE sortedKeys(_)
sortedKeys(S) ==
  IF S = {} THEN <<>>
  ELSE LET m == CHOOSE x \in S : \A y \in S : localeCompare(x, y) <= 0
       IN <<m>> \o sortedKeys(S \ {m})

(***************************************************************************)
(* Compound objects: compound[key] = tag and delete compound[key].         *)
(***************************************************************************)
setKey(value, key, tag) ==
  CompoundValue([n \in DOMAIN value.v \cup {key} |->
                   IF n = key THEN tag ELSE value.v[n]])

deleteKey(value, key) ==
  CompoundValue([n \in DOMAIN value.v \ {key} |-> value.v[n]])

\* compound[key], undefined when the key is missing
getKey(value, key) ==
  IF key \in DOMAIN value.v THEN value.v[key] ELSE undefinedTag

(***************************************************************************)
(* List objects: list.value.push(v), list.value[index] = v.                *)
(***************************************************************************)
pushValue(value, v) ==
  ListValue(value.v.type, Append(value.v.value, v))

spliceValue(value, index) ==
  ListValue(value.v.type, splice(value.v.value, index))

\* list.value[index] = v: NaN or a negative index sets a property of the
\* array object and no element; an index past the end leaves holes.
setIndex(value, index, v) ==
  LET arr == value.v.value
  IN IF index.nan \/ index.n < 0 THEN value
     ELSE ListValue(value.v.type,
            [i \in 1..(IF index.n + 1 > Len(arr) THEN index.n + 1 ELSE Len(arr)) |->
               IF i = index.n + 1 THEN v
               ELSE IF i <= Len(arr) THEN arr[i] ELSE undefined])

(***************************************************************************)
(* parser.ts: generateNodeId, buildTreeNode.  Ids are the counter values;  *)
(* buildTreeNode returns the node and the counter after the subtree.       *)
(***************************************************************************)
generateNodeId(counter) == counter + 1

RECURSIVE buildTreeNode(_, _, _, _)
RECURSIVE buildChildren(_, _, _)
buildTreeNode(name, tag, path, counter) ==
  LET id == generateNodeId(counter)
      nodePath == Append(path, name)
      entries ==
        IF tag.type = TagType_Compound
        THEN LET keys == sortedKeys(DOMAIN tag.value.v)
             IN [i \in 1..Len(keys) |-> <<keys[i], tag.value.v[keys[i]]>>]
        ELSE IF tag.type = TagType_List
        THEN [i \in 1..Len(tag.value.v.value) |->
                <<String(i - 1), NbtTag(tag.value.v.type, tag.value.v.value[i])>>]
        ELSE <<>>
      built == buildChildren(entries, nodePath, id)
  IN [node |-> [id |-> id, name |-> name, type |-> tag.type, value |-> tag.value,
                path |-> nodePath, children |-> built.nodes],
      counter |-> built.counter]

buildChildren(entries, path, counter) ==
  IF entries = <<>> THEN [nodes |-> <<>>, counter |-> counter]
  ELSE LET first == buildTreeNode(Head(entries)[1], Head(entries)[2], path, counter)
           rest == buildChildren(Tail(entries), path, first.counter)
       IN [nodes |-> <<first.node>> \o rest.nodes, counter |-> rest.counter]

(***************************************************************************)
(* parser.ts: cloneValue, cloneTree.                                       *)
(* cloneValue dispatches on the declared kind: under Compound,             *)
(* Object.entries of a number is empty, so a number is cloned to {}; under *)
(* a leaf kind the value is returned as it is.  cloneValueThrows tells     *)
(* when the same walk raises a TypeError: `list.value.map` on a value that *)
(* is no List object, Object.entries(undefined), or `tag.type` on an       *)
(* undefined entry of a compound.                                          *)
(***************************************************************************)
RECURSIVE cloneValueThrows(_, _)
cloneValueThrows(type, value) ==
  IF type = TagType_List
  THEN \/ value.k # "list"
       \/ \E i \in 1..Len(value.v.value) :
            cloneValueThrows(value.v.type, value.v.value[i])
  ELSE IF type = TagType_Compound
  THEN \/ value.k = "undefined"
       \/ /\ value.k = "compound"
          /\ \E n \in DOMAIN value.v :
               \/ value.v[n] = undefinedTag
               \/ cloneValueThrows(value.v[n].type, value.v[n].value)
  ELSE FALSE

RECURSIVE cloneTreeThrows(_)
cloneTreeThrows(node) ==
  \/ cloneValueThrows(node.type, node.value)
  \/ \E i \in 1..Len(node.children) : cloneTreeThrows(node.children[i])

RECURSIVE cloneValue(_, _)
cloneValue(type, value) ==
  IF type = TagType_List
  THEN ListValue(value.v.type,
                 [i \in 1..Len(value.v.value) |->
                    cloneValue(value.v.type, value.v.value[i])])
  ELSE IF type = TagType_Compound
  THEN IF value.k = "compound"
       THEN CompoundValue([n \in DOMAIN value.v |->
                             NbtTag(value.v[n].type,
                                    cloneValue(value.v[n].type, value.v[n].value))])
       ELSE EmptyCompound
  ELSE value

RECURSIVE cloneTree(_)
cloneTree(node) ==
  [id |-> node.id, name |-> node.name, type |-> node.type,
   value |-> cloneValue(node.type, node.value),
   path |-> node.path,
   children |-> [i \in 1..Len(node.children) |-> cloneTree(node.children[i])]]

(***************************************************************************)
(* parser.ts: findNodeByPath.  locate gives the position of the node the   *)
(* loop ends on, as the sequence of child indices from the root, so that   *)
(* the assignments the source makes to the node it found can be applied    *)
(* to that node of the tree.                                               *)
(***************************************************************************)
\* children.find((c) => c.name === name): index of the first match, 0 if none
findIndex(children, name) ==
  IF \E i \in 1..Len(children) : children[i].name = name
  THEN CHOOSE i \in 1..Len(children) :
         /\ children[i].name = name
         /\ \A j \in 1..(i - 1) : children[j].name # name
  ELSE 0

RECURSIVE nodeAt(_, _)
nodeAt(root, pos) ==
  IF pos = <<>> THEN root ELSE nodeAt(root.children[Head(pos)], Tail(pos))

RECURSIVE replaceAt(_, _, _)
replaceAt(root, pos, node) ==
  IF pos = <<>> THEN node
  ELSE [root EXCEPT !.children =
          [i \in 1..Len(root.children) |->
             IF i = Head(pos) THEN replaceAt(root.children[i], Tail(pos), node)
             ELSE root.children[i]]]

\* the loop `for (let i = 1; i < path.length; i++)`, from segment i (1-based)
RECURSIVE walk(_, _, _)
walk(current, path, i) ==
  IF i > Len(path) THEN [found |-> TRUE, pos |-> <<>>]
  ELSE LET j == findIndex(current.children, path[i])
       IN IF j = 0 THEN [found |-> FALSE, pos |-> <<>>]
          ELSE LET rest == walk(current.children[j], path, i + 1)
               IN [found |-> rest.found, pos |-> <<j>> \o rest.pos]

\* the loop started at the first segment, the root matched like a child
locate_FromFirstSegment(root, path) == walk(root, path, 1)

locate(root, path) ==
  IF Len(path) = 0 \/ (Len(path) = 1 /\ path[1] = root.name)
  THEN [found |-> TRUE, pos |-> <<>>]
  ELSE walk(root, path, 2)

findNodeByPath(root, path) ==
  LET l == locate(root, path)
  IN IF l.found THEN nodeAt(root, l.pos) ELSE null

(***************************************************************************)
(* parser.ts: updateParentValues.  step i of the loop, i from              *)
(* path.length - 1 down to 1.                                              *)
(***************************************************************************)
RECURSIVE updateParentValuesFrom(_, _, _)
updateParentValuesFrom(root, path, i) ==
  IF i < 1 THEN root
  ELSE LET parentLoc == locate(root, slice(path, i))
           childLoc == locate(root, slice(path, i + 1))
       IN IF ~parentLoc.found \/ ~childLoc.found
          THEN updateParentValuesFrom(root, path, i - 1)
          ELSE LET parent == nodeAt(root, parentLoc.pos)
                   child == nodeAt(root, childLoc.pos)
                   newValue ==
                     IF parent.type = TagType_Compound
                     THEN setKey(parent.value, child.name,
                                 NbtTag(child.type, child.value))
                     ELSE IF parent.type = TagType_List
                     THEN setIndex(parent.value, parseInt(child.name), child.value)
                     ELSE parent.value
               IN updateParentValuesFrom(
                    replaceAt(root, parentLoc.pos, [parent EXCEPT !.value = newValue]),
                    path, i - 1)

\* the ancestors left as cloneTree copied them
updateParentValues_Skipped(root, path) == root

updateParentValues(root, path) == updateParentValuesFrom(root, path, Len(path) - 1)

(***************************************************************************)
(* parser.ts: updateNodeValue.                                             *)
(***************************************************************************)
updateNodeValue(root, nodePath, newValue) ==
  LET clonedRoot == cloneTree(root)
      l == locate(clonedRoot, nodePath)
  IN IF l.found
     THEN updateParentValues(
            replaceAt(clonedRoot, l.pos,
                      [nodeAt(clonedRoot, l.pos) EXCEPT !.value = newValue]),
            nodePath)
     ELSE clonedRoot

(***************************************************************************)
(* parser.ts: addTag.  The result carries the counter, which               *)
(* generateNodeId advances once the parent has been found.                 *)
(***************************************************************************)
addTag(root, parentPath, name, type, value, counter) ==
  LET clonedRoot == cloneTree(root)
      l == locate(clonedRoot, parentPath)
      parent == nodeAt(clonedRoot, l.pos)
      newNode == [id |-> generateNodeId(counter), name |-> name, type |-> type,
                  value |-> value, path |-> Append(parentPath, name),
                  children |-> <<>>]
      newParent ==
        IF parent.type = TagType_Compound
        THEN [parent EXCEPT
                !.value = setKey(parent.value, name, NbtTag(type, value)),
                !.children = sortByName(Append(parent.children, newNode))]
        ELSE IF parent.type = TagType_List
        THEN LET newName == String(Len(parent.children))
             IN [parent EXCEPT
                   !.value = pushValue(parent.value, value),
                   !.children = Append(parent.children,
                                       [newNode EXCEPT
                                          !.name = newName,
                                          !.path = Append(parentPath, newName)])]
        ELSE parent
  IN IF ~l.found THEN [tree |-> clonedRoot, counter |-> counter]
     ELSE [tree |-> updateParentValues(replaceAt(clonedRoot, l.pos, newParent),
                                       parentPath),
           counter |-> generateNodeId(counter)]

(***************************************************************************)
(* parser.ts: deleteTag.                                                   *)
(***************************************************************************)
\* parent.children.forEach((c, i) => { c.name = String(i); c.path = ... })
renumber(children, parentPath) ==
  [i \in 1..Len(children) |->
     [children[i] EXCEPT !.name = String(i - 1),
                         !.path = Append(parentPath, String(i - 1))]]

deleteTag(root, nodePath) ==
  IF Len(nodePath) <= 1 THEN root
  ELSE LET clonedRoot == cloneTree(root)
           parentPath == slice(nodePath, Len(nodePath) - 1)
           l == locate(clonedRoot, parentPath)
           parent == nodeAt(clonedRoot, l.pos)
           nodeName == nodePath[Len(nodePath)]
           newParent ==
             IF parent.type = TagType_Compound
             THEN [parent EXCEPT
                     !.value = deleteKey(parent.value, nodeName),
                     !.children = filterOutName(parent.children, nodeName)]
             ELSE IF parent.type = TagType_List
             THEN LET index == parseInt(nodeName)
                  IN [parent EXCEPT
                        !.value = spliceValue(parent.value, index),
                        !.children = renumber(splice(parent.children, index),
                                              parentPath)]
             ELSE parent
       IN IF ~l.found THEN clonedRoot
          ELSE updateParentValues(replaceAt(clonedRoot, l.pos, newParent),
                                  parentPath)

(***************************************************************************)
(* parser.ts: renameTag.                                                   *)
(***************************************************************************)
renameTag(root, nodePath, newName) ==
  IF Len(nodePath) <= 1 THEN root
  ELSE LET clonedRoot == cloneTree(root)
           parentPath == slice(nodePath, Len(nodePath) - 1)
           pl == locate(clonedRoot, parentPath)
           nl == locate(clonedRoot, nodePath)
           parent == nodeAt(clonedRoot, pl.pos)
           oldName == nodePath[Len(nodePath)]
           tag == getKey(parent.value, oldName)
           k == nl.pos[Len(nl.pos)]
           renamed == [i \in 1..Len(parent.children) |->
                         IF i = k
                         THEN [parent.children[i] EXCEPT
                                 !.name = newName,
                                 !.path = Append(parentPath, newName)]
                         ELSE parent.children[i]]
       IN IF ~pl.found \/ ~nl.found THEN clonedRoot
          ELSE IF parent.type # TagType_Compound THEN clonedRoot
          ELSE replaceAt(clonedRoot, pl.pos,
                 [parent EXCEPT
                    !.value = setKey(deleteKey(parent.value, oldName), newName, tag),
                    !.children = sortByName(renamed)])

(***************************************************************************)
(* types.ts: createDefaultValue, isContainerType.                          *)
(***************************************************************************)
createDefaultValue(type) ==
  IF type = TagType_Compound THEN EmptyCompound
  ELSE IF type = TagType_List THEN ListValue(TagType_Byte, <<>>)
  ELSE Num(0)

isContainerType(type) == type = TagType_Compound \/ type = TagType_List

(***************************************************************************)
(* The documents a run loads: the root value nbt.parse and convertValue    *)
(* deliver.  Document1 nests a Compound and a List of Compounds, one of    *)
(* them with a child; Document2 holds a List of three Ints.                *)
(***************************************************************************)
Compound1(k1, t1) == CompoundValue([n \in {k1} |-> t1])
Compound3(k1, t1, k2, t2, k3, t3) ==
  CompoundValue([n \in {k1, k2, k3} |->
                   IF n = k1 THEN t1 ELSE IF n = k2 THEN t2 ELSE t3])

Document1 ==
  Compound3("b", NbtTag(TagType_Int, Num(1)),
            "c", NbtTag(TagType_Compound,
                        Compound1("b", NbtTag(TagType_Int, Num(2)))),
            "l", NbtTag(TagType_List,
                        ListValue(TagType_Compound,
                                  <<EmptyCompound,
                                    Compound1("d", NbtTag(TagType_Int, Num(2)))>>)))

Document2 ==
  Compound1("m", NbtTag(TagType_List,
                        ListValue(TagType_Int, <<Num(5), Num(6), Num(7)>>)))

Documents == {Document1, Document2}

\* the document of the runs over the heap: a Compound and a List of one
\* Compound, each with a child
Compound2(k1, t1, k2, t2) ==
  CompoundValue([n \in {k1, k2} |-> IF n = k1 THEN t1 ELSE t2])

Document3 ==
  Compound2("c", NbtTag(TagType_Compound,
                        Compound1("b", NbtTag(TagType_Int, Num(2)))),
            "l", NbtTag(TagType_List,
                        ListValue(TagType_Compound,
                                  <<Compound1("d", NbtTag(TagType_Int, Num(2)))>>)))

DocumentsH == {Document3}

(***************************************************************************)
(* parser.ts: parseNbtFile, from resetNodeIdCounter on; the root is a      *)
(* Compound named rootName.                                                *)
(***************************************************************************)
resetNodeIdCounter == 0

parseNbtFile(document) ==
  buildTreeNode(rootName, NbtTag(TagType_Compound, document), <<>>,
                resetNodeIdCounter)

(***************************************************************************)
(* The inputs of the edit handlers.                                        *)
(***************************************************************************)
RECURSIVE NodesOf(_)
NodesOf(node) ==
  {node} \cup UNION {NodesOf(node.children[i]) : i \in 1..Len(node.children)}

\* a negative index, an index past the end, and a name that is no number
MissingNames == {"-1", "4", "z"}
\* the name of an added tag and the new name of a renamed one: a key of one
\* Compound of Document1 and missing from the others, after "b" and "c"
NewNames == {"d"}
AddTypes == {TagType_Int, TagType_Compound}
NewValues == {Num(7)}

\* the path of every node (what the tree view passes), the same with a
\* wrong first segment, each extended by a name that matches no child, and
\* the empty path; none while no document is loaded
EditPaths(root) ==
  LET paths == IF root = null THEN {} ELSE {n.path : n \in NodesOf(root)}
  IN paths
     \cup {<<"Wrong">> \o Tail(p) : p \in paths}
     \cup {Append(p, x) : p \in paths, x \in MissingNames}
     \cup {<<>>}

(***************************************************************************)
(* use-nbt-editor.ts.  tree is the hook's React state; a handler reads the *)
(* tree of the last render and queues setTree(newTree), which React        *)
(* applies before it runs the next handler (Render).  call records the     *)
(* handler's call into parser.ts: the arguments, the tree it was given and *)
(* the tree it returned; threw tells that cloneTree raised a TypeError, in *)
(* which case the handler ends without setTree.                            *)
(***************************************************************************)
NoCall == [op |-> "none", path |-> <<>>, name |-> "", type |-> 0, kind |-> "",
           value |-> undefined, input |-> null, result |-> null,
           threw |-> FALSE]

Init ==
  /\ tree = null
  /\ nodeIdCounter = 0
  /\ call = NoCall
  /\ edits = 0
  /\ heap = <<>>
  /\ heapRoot = 0
  /\ versions = <<>>
  /\ retired = {}
  /\ fileInfo = null
  /\ isRegion = FALSE
  /\ modified = FALSE
  /\ clipboard = null
  /\ cutNodeRef = null
  /\ loads = <<>>
  /\ latest = null
  /\ save = null
  /\ modifiedFiles = <<>>
  /\ editor = null
  /\ edited = <<>>
  /\ zip = null

\* loadFile, for a file that is no Region file
loadFile(document) ==
  /\ call = NoCall
  /\ LET parsed == parseNbtFile(document)
     IN /\ call' = [NoCall EXCEPT !.op = "parseNbtFile", !.result = parsed.node]
        /\ nodeIdCounter' = parsed.counter
  /\ UNCHANGED <<tree, edits>>
  /\ UNCHANGED <<heapVars, otherVars>>

\* the ids of the nodes of a tree
RECURSIVE IdsOf(_)
IdsOf(node) ==
  {node.id} \cup UNION {IdsOf(node.children[i]) : i \in 1..Len(node.children)}

\* the calls that hand the editor the tree of a document
LoadOps == {"parseNbtFile", "convertToTree"}

\* the render that follows a handler: the queued setTree takes effect.
\* retired is a history variable: the ids of the nodes that have left the
\* tree since the document was loaded.
Render ==
  /\ call # NoCall
  /\ tree' = IF call.threw THEN tree ELSE call.result
  /\ edits' = IF call.op \in LoadOps THEN 0 ELSE edits + 1
  /\ retired' = IF call.op \in LoadOps THEN {}
                ELSE IF call.threw THEN retired
                ELSE retired \cup (IdsOf(tree) \ IdsOf(call.result))
  /\ call' = NoCall
  /\ UNCHANGED nodeIdCounter
  /\ UNCHANGED <<heapVars, hookVars, clipVars, loads, latest, zipVars>>

CanEdit ==
  /\ call = NoCall
  /\ tree # null
  /\ edits < MaxEdits

\* updateValue; the tree view opens the value editor on no container
updateValue(nodePath, newValue) ==
  /\ CanEdit
  /\ LET target == findNodeByPath(tree, nodePath)
     IN IF target = null THEN TRUE ELSE ~isContainerType(target.type)
  /\ call' = IF cloneTreeThrows(tree)
             THEN [NoCall EXCEPT !.op = "updateNodeValue", !.path = nodePath,
                                 !.value = newValue, !.input = tree,
                                 !.result = tree, !.threw = TRUE]
             ELSE [NoCall EXCEPT !.op = "updateNodeValue", !.path = nodePath,
                                 !.value = newValue, !.input = tree,
                                 !.result = updateNodeValue(tree, nodePath, newValue)]
  /\ UNCHANGED <<tree, nodeIdCounter, edits>>
  /\ UNCHANGED <<heapVars, otherVars>>

\* addNewTag
addNewTag(parentPath, name, type) ==
  /\ CanEdit
  /\ LET defaultValue == createDefaultValue(type)
         added == addTag(tree, parentPath, name, type, defaultValue, nodeIdCounter)
     IN IF cloneTreeThrows(tree)
        THEN /\ call' = [NoCall EXCEPT !.op = "addTag", !.path = parentPath,
                                       !.name = name, !.type = type,
                                       !.value = defaultValue, !.input = tree,
                                       !.result = tree, !.threw = TRUE]
             /\ UNCHANGED nodeIdCounter
        ELSE /\ call' = [NoCall EXCEPT !.op = "addTag", !.path = parentPath,
                                       !.name = name, !.type = type,
                                       !.value = defaultValue, !.input = tree,
                                       !.result = added.tree]
             /\ nodeIdCounter' = added.counter
  /\ UNCHANGED <<tree, edits>>
  /\ UNCHANGED <<heapVars, otherVars>>

\* deleteNode
deleteNode(nodePath) ==
  /\ CanEdit
  /\ call' = IF Len(nodePath) > 1 /\ cloneTreeThrows(tree)
             THEN [NoCall EXCEPT !.op = "deleteTag", !.path = nodePath,
                                 !.input = tree, !.result = tree, !.threw = TRUE]
             ELSE [NoCall EXCEPT !.op = "deleteTag", !.path = nodePath,
                                 !.input = tree,
                                 !.result = deleteTag(tree, nodePath)]
  /\ UNCHANGED <<tree, nodeIdCounter, edits>>
  /\ UNCHANGED <<heapVars, otherVars>>

\* renameNode
renameNode(nodePath, newName) ==
  /\ CanEdit
  /\ call' = IF Len(nodePath) > 1 /\ cloneTreeThrows(tree)
             THEN [NoCall EXCEPT !.op = "renameTag", !.path = nodePath,
                                 !.name = newName, !.input = tree,
                                 !.result = tree, !.threw = TRUE]
             ELSE [NoCall EXCEPT !.op = "renameTag", !.path = nodePath,
                                 !.name = newName, !.input = tree,
                                 !.result = renameTag(tree, nodePath, newName)]
  /\ UNCHANGED <<tree, nodeIdCounter, edits>>
  /\ UNCHANGED <<heapVars, otherVars>>

Next ==
  \/ \E document \in Documents : loadFile(document)
  \/ Render
  \/ \E nodePath \in EditPaths(tree), newValue \in NewValues :
       updateValue(nodePath, newValue)
  \/ \E parentPath \in EditPaths(tree), name \in NewNames, type \in AddTypes :
       addNewTag(parentPath, name, type)
  \/ \E nodePath \in EditPaths(tree) : deleteNode(nodePath)
  \/ \E nodePath \in EditPaths(tree), newName \in NewNames :
       renameNode(nodePath, newName)

Spec == Init /\ [][Next]_vars

(***************************************************************************)
(* The same functions over the object heap of the JavaScript runtime, to   *)
(* tell which objects an edit assigns to.  heap is the sequence of the     *)
(* objects created so far and an address is an index into it.  A node      *)
(* object holds the addresses of its children; the value of a node, of a   *)
(* compound entry or of a list element is a cell: a number or undefined,   *)
(* or Ref(a) for the Compound or List object at address a.  The {type,     *)
(* value} records of a compound and the path arrays are only ever          *)
(* replaced, never assigned into, and are kept as values; a children       *)
(* array is created by cloneTree or buildTreeNode for one node and is kept *)
(* in that node.                                                           *)
(***************************************************************************)
Ref(a) == [k |-> "ref", v |-> a]

alloc(h, object) == [heap |-> Append(h, object), addr |-> Len(h) + 1]

indexOf(keys, key) == CHOOSE i \in 1..Len(keys) : keys[i] = key

\* convertValue: the objects of the parsed document
RECURSIVE storeValue(_, _)
RECURSIVE storeValues(_, _)
storeValue(h, value) ==
  IF value.k = "compound"
  THEN LET keys == sortedKeys(DOMAIN value.v)
           stored == storeValues(h, [i \in 1..Len(keys) |-> value.v[keys[i]].value])
           a == alloc(stored.heap,
                      [kind |-> "compound",
                       entries |-> [n \in DOMAIN value.v |->
                                      NbtTag(value.v[n].type,
                                             stored.cells[indexOf(keys, n)])]])
       IN [heap |-> a.heap, cell |-> Ref(a.addr)]
  ELSE IF value.k = "list"
  THEN LET stored == storeValues(h, value.v.value)
           a == alloc(stored.heap,
                      [kind |-> "list", type |-> value.v.type,
                       value |-> stored.cells])
       IN [heap |-> a.heap, cell |-> Ref(a.addr)]
  ELSE [heap |-> h, cell |-> value]

storeValues(h, values) ==
  IF values = <<>> THEN [heap |-> h, cells |-> <<>>]
  ELSE LET first == storeValue(h, Head(values))
           rest == storeValues(first.heap, Tail(values))
       IN [heap |-> rest.heap, cells |-> <<first.cell>> \o rest.cells]

\* the value and the tree an address stands for
RECURSIVE absValue(_, _)
absValue(h, cell) ==
  IF cell.k = "ref"
  THEN LET o == h[cell.v]
       IN IF o.kind = "compound"
          THEN CompoundValue([n \in DOMAIN o.entries |->
                                NbtTag(o.entries[n].type,
                                       absValue(h, o.entries[n].value))])
          ELSE ListValue(o.type,
                         [i \in 1..Len(o.value) |-> absValue(h, o.value[i])])
  ELSE cell

RECURSIVE absTree(_, _)
absTree(h, addr) ==
  [id |-> h[addr].id, name |-> h[addr].name, type |-> h[addr].type,
   value |-> absValue(h, h[addr].value), path |-> h[addr].path,
   children |-> [i \in 1..Len(h[addr].children) |->
                   absTree(h, h[addr].children[i])]]

\* buildTreeNode: node.value is tag.value, the object the parent's value holds
RECURSIVE buildTreeNodeH(_, _, _, _, _, _)
RECURSIVE buildChildrenH(_, _, _, _)
buildTreeNodeH(h, name, type, cell, path, counter) ==
  LET id == generateNodeId(counter)
      nodePath == Append(path, name)
      entries ==
        IF type = TagType_Compound
        THEN LET keys == sortedKeys(DOMAIN h[cell.v].entries)
             IN [i \in 1..Len(keys) |->
                   <<keys[i], h[cell.v].entries[keys[i]].type,
                     h[cell.v].entries[keys[i]].value>>]
        ELSE IF type = TagType_List
        THEN [i \in 1..Len(h[cell.v].value) |->
                <<String(i - 1), h[cell.v].type, h[cell.v].value[i]>>]
        ELSE <<>>
      built == buildChildrenH(h, entries, nodePath, id)
      a == alloc(built.heap,
                 [kind |-> "node", id |-> id, name |-> name, type |-> type,
                  value |-> cell, path |-> nodePath, children |-> built.addrs])
  IN [heap |-> a.heap, addr |-> a.addr, counter |-> built.counter]

buildChildrenH(h, entries, path, counter) ==
  IF entries = <<>> THEN [heap |-> h, addrs |-> <<>>, counter |-> counter]
  ELSE LET first == buildTreeNodeH(h, Head(entries)[1], Head(entries)[2],
                                   Head(entries)[3], path, counter)
           rest == buildChildrenH(first.heap, Tail(entries), path, first.counter)
       IN [heap |-> rest.heap, addrs |-> <<first.addr>> \o rest.addrs,
           counter |-> rest.counter]

\* cloneValue: a new object for a List or Compound kind, the cell itself
\* (the same object, if it is one) for a leaf kind
RECURSIVE cloneValueH(_, _, _)
RECURSIVE cloneTagsH(_, _)
cloneValueH(h, type, cell) ==
  IF type = TagType_List
  THEN LET o == h[cell.v]
           cloned == cloneTagsH(h, [i \in 1..Len(o.value) |->
                                      NbtTag(o.type, o.value[i])])
           a == alloc(cloned.heap,
                      [kind |-> "list", type |-> o.type, value |-> cloned.cells])
       IN [heap |-> a.heap, cell |-> Ref(a.addr)]
  ELSE IF type = TagType_Compound
  THEN IF cell.k = "ref"
       THEN LET o == h[cell.v]
                keys == sortedKeys(DOMAIN o.entries)
                cloned == cloneTagsH(h, [i \in 1..Len(keys) |-> o.entries[keys[i]]])
                a == alloc(cloned.heap,
                           [kind |-> "compound",
                            entries |-> [n \in DOMAIN o.entries |->
                                           NbtTag(o.entries[n].type,
                                                  cloned.cells[indexOf(keys, n)])]])
            IN [heap |-> a.heap, cell |-> Ref(a.addr)]
       ELSE LET a == alloc(h, [kind |-> "compound",
                               entries |-> [n \in {} |-> undefinedTag]])
            IN [heap |-> a.heap, cell |-> Ref(a.addr)]
  ELSE [heap |-> h, cell |-> cell]

cloneTagsH(h, tags) ==
  IF tags = <<>> THEN [heap |-> h, cells |-> <<>>]
  ELSE LET first == cloneValueH(h, Head(tags).type, Head(tags).value)
           rest == cloneTagsH(first.heap, Tail(tags))
       IN [heap |-> rest.heap, cells |-> <<first.cell>> \o rest.cells]

\* the input node handed back instead of a copy
cloneTreeH_Shared(h, addr) == [heap |-> h, addr |-> addr]

\* cloneTree
RECURSIVE cloneTreeH(_, _)
RECURSIVE cloneChildrenH(_, _)
cloneTreeH(h, addr) ==
  LET node == h[addr]
      value == cloneValueH(h, node.type, node.value)
      kids == cloneChildrenH(value.heap, node.children)
      a == alloc(kids.heap,
                 [node EXCEPT !.value = value.cell, !.children = kids.addrs])
  IN [heap |-> a.heap, addr |-> a.addr]

cloneChildrenH(h, children) ==
  IF children = <<>> THEN [heap |-> h, addrs |-> <<>>]
  ELSE LET first == cloneTreeH(h, Head(children))
           rest == cloneChildrenH(first.heap, Tail(children))
       IN [heap |-> rest.heap, addrs |-> <<first.addr>> \o rest.addrs]

\* findNodeByPath: the address of the node found
findIndexH(h, children, name) ==
  findIndex([i \in 1..Len(children) |-> h[children[i]]], name)

RECURSIVE walkH(_, _, _, _)
walkH(h, current, path, i) ==
  IF i > Len(path) THEN [found |-> TRUE, addr |-> current]
  ELSE LET j == findIndexH(h, h[current].children, path[i])
       IN IF j = 0 THEN [found |-> FALSE, addr |-> 0]
          ELSE walkH(h, h[current].children[j], path, i + 1)

locateH(h, r, path) ==
  IF Len(path) = 0 \/ (Len(path) = 1 /\ path[1] = h[r].name)
  THEN [found |-> TRUE, addr |-> r]
  ELSE walkH(h, r, path, 2)

\* compound[key] = tag, delete compound[key], list.value.push(v),
\* list.value.splice(index, 1), list.value[index] = v on the object at a
setKeyH(h, a, key, tag) ==
  [h EXCEPT ![a].entries = [n \in DOMAIN h[a].entries \cup {key} |->
                              IF n = key THEN tag ELSE h[a].entries[n]]]

deleteKeyH(h, a, key) ==
  [h EXCEPT ![a].entries = [n \in DOMAIN h[a].entries \ {key} |->
                              h[a].entries[n]]]

getKeyH(h, a, key) ==
  IF key \in DOMAIN h[a].entries THEN h[a].entries[key] ELSE undefinedTag

pushValueH(h, a, cell) == [h EXCEPT ![a].value = Append(h[a].value, cell)]

spliceValueH(h, a, index) == [h EXCEPT ![a].value = splice(h[a].value, index)]

setIndexH(h, a, index, cell) ==
  LET arr == h[a].value
  IN IF index.nan \/ index.n < 0 THEN h
     ELSE [h EXCEPT ![a].value =
            [i \in 1..(IF index.n + 1 > Len(arr) THEN index.n + 1 ELSE Len(arr)) |->
               IF i = index.n + 1 THEN cell
               ELSE IF i <= Len(arr) THEN arr[i] ELSE undefined]]

\* parent.children.sort(...): the addresses in the order of the nodes' names
sortByNameH(h, children) ==
  LET sorted == sortByName([i \in 1..Len(children) |->
                              [name |-> h[children[i]].name, addr |-> children[i]]])
  IN [i \in 1..Len(sorted) |-> sorted[i].addr]

\* updateParentValues.  The operations below take what the source holds in
\* a local (clonedRoot, parent, node: the heap after the clone and the
\* addresses findNodeByPath returned) as arguments.
\* one step of the loop: assigns into the object that parent.value refers to
assignChildH(h, parent, child) ==
  IF parent.type = TagType_Compound
  THEN setKeyH(h, parent.value.v, child.name, NbtTag(child.type, child.value))
  ELSE IF parent.type = TagType_List
  THEN setIndexH(h, parent.value.v, parseInt(child.name), child.value)
  ELSE h

updateParentValueH(h, parentLoc, childLoc) ==
  IF ~parentLoc.found \/ ~childLoc.found THEN h
  ELSE assignChildH(h, h[parentLoc.addr], h[childLoc.addr])

RECURSIVE updateParentValuesFromH(_, _, _, _)
updateParentValuesFromH(h, r, path, i) ==
  IF i < 1 THEN h
  ELSE updateParentValuesFromH(
         updateParentValueH(h, locateH(h, r, slice(path, i)),
                            locateH(h, r, slice(path, i + 1))),
         r, path, i - 1)

updateParentValuesH(h, r, path) ==
  updateParentValuesFromH(h, r, path, Len(path) - 1)

\* updateNodeValue
updateNodeValueAtH(cloned, l, nodePath, newValue) ==
  IF l.found
  THEN [heap |-> updateParentValuesH(
                   [cloned.heap EXCEPT ![l.addr].value = newValue],
                   cloned.addr, nodePath),
        addr |-> cloned.addr]
  ELSE cloned

updateNodeValueInH(cloned, nodePath, newValue) ==
  updateNodeValueAtH(cloned, locateH(cloned.heap, cloned.addr, nodePath),
                     nodePath, newValue)

updateNodeValueH(h, r, nodePath, newValue) ==
  updateNodeValueInH(cloneTreeH(h, r), nodePath, newValue)

\* addTag.  newNode is the heap with the new node allocated and its address.
addTagNodeH(h, parent, newNode, name, type, value) ==
  IF h[parent].type = TagType_Compound
  THEN [setKeyH(newNode.heap, h[parent].value.v, name, NbtTag(type, value))
          EXCEPT ![parent].children =
            sortByNameH(newNode.heap, Append(h[parent].children, newNode.addr))]
  ELSE IF h[parent].type = TagType_List
  THEN [pushValueH(newNode.heap, h[parent].value.v, value)
          EXCEPT ![parent].children = Append(h[parent].children, newNode.addr)]
  ELSE newNode.heap

addTagAtH(cloned, l, parentPath, name, newName, type, value, counter) ==
  [heap |-> updateParentValuesH(
              addTagNodeH(cloned.heap, l.addr,
                          alloc(cloned.heap,
                                [kind |-> "node", id |-> generateNodeId(counter),
                                 name |-> newName, type |-> type, value |-> value,
                                 path |-> Append(parentPath, newName),
                                 children |-> <<>>]),
                          name, type, value),
              cloned.addr, parentPath),
   addr |-> cloned.addr, counter |-> generateNodeId(counter)]

addTagInH(cloned, l, parentPath, name, type, value, counter) ==
  IF ~l.found
  THEN [heap |-> cloned.heap, addr |-> cloned.addr, counter |-> counter]
  ELSE addTagAtH(cloned, l, parentPath, name,
                 IF cloned.heap[l.addr].type = TagType_List
                 THEN String(Len(cloned.heap[l.addr].children)) ELSE name,
                 type, value, counter)

addTagClonedH(cloned, parentPath, name, type, value, counter) ==
  addTagInH(cloned, locateH(cloned.heap, cloned.addr, parentPath),
            parentPath, name, type, value, counter)

\* value: the heap that holds the new tag's value, and the value's cell
addTagH(r, parentPath, name, type, value, counter) ==
  addTagClonedH(cloneTreeH(value.heap, r), parentPath, name, type, value.cell,
                counter)

\* parent.children.forEach((c, i) => { c.name = String(i); c.path = ... })
RECURSIVE renumberH(_, _, _, _)
renumberH(h, children, parentPath, i) ==
  IF i > Len(children) THEN h
  ELSE renumberH([h EXCEPT ![children[i]].name = String(i - 1),
                           ![children[i]].path = Append(parentPath, String(i - 1))],
                 children, parentPath, i + 1)

\* deleteTag
deleteTagNodeH(h, parent, parentPath, nodeName) ==
  IF h[parent].type = TagType_Compound
  THEN [deleteKeyH(h, h[parent].value.v, nodeName)
          EXCEPT ![parent].children =
            SelectSeq(h[parent].children, LAMBDA c : h[c].name # nodeName)]
  ELSE IF h[parent].type = TagType_List
  THEN renumberH([spliceValueH(h, h[parent].value.v, parseInt(nodeName))
                    EXCEPT ![parent].children =
                      splice(h[parent].children, parseInt(nodeName))],
                 splice(h[parent].children, parseInt(nodeName)), parentPath, 1)
  ELSE h

deleteTagInH(cloned, l, parentPath, nodeName) ==
  IF ~l.found THEN cloned
  ELSE [heap |-> updateParentValuesH(
                   deleteTagNodeH(cloned.heap, l.addr, parentPath, nodeName),
                   cloned.addr, parentPath),
        addr |-> cloned.addr]

deleteTagClonedH(cloned, parentPath, nodeName) ==
  deleteTagInH(cloned, locateH(cloned.heap, cloned.addr, parentPath),
               parentPath, nodeName)

deleteTagH(h, r, nodePath) ==
  IF Len(nodePath) <= 1 THEN [heap |-> h, addr |-> r]
  ELSE deleteTagClonedH(cloneTreeH(h, r), slice(nodePath, Len(nodePath) - 1),
                        nodePath[Len(nodePath)])

\* renameTag
sortChildrenH(h, parent) ==
  [h EXCEPT ![parent].children = sortByNameH(h, h[parent].children)]

renameTagNodeH(h, parent, node, parentPath, oldName, newName) ==
  sortChildrenH(
    [setKeyH(deleteKeyH(h, h[parent].value.v, oldName), h[parent].value.v,
             newName, getKeyH(h, h[parent].value.v, oldName))
       EXCEPT ![node].name = newName,
              ![node].path = Append(parentPath, newName)],
    parent)

renameTagInH(cloned, pl, nl, parentPath, oldName, newName) ==
  IF ~pl.found \/ ~nl.found THEN cloned
  ELSE IF cloned.heap[pl.addr].type # TagType_Compound THEN cloned
  ELSE [heap |-> renameTagNodeH(cloned.heap, pl.addr, nl.addr, parentPath,
                                oldName, newName),
        addr |-> cloned.addr]

renameTagClonedH(cloned, nodePath, parentPath, newName) ==
  renameTagInH(cloned, locateH(cloned.heap, cloned.addr, parentPath),
               locateH(cloned.heap, cloned.addr, nodePath),
               parentPath, nodePath[Len(nodePath)], newName)

renameTagH(h, r, nodePath, newName) ==
  IF Len(nodePath) <= 1 THEN [heap |-> h, addr |-> r]
  ELSE renameTagClonedH(cloneTreeH(h, r), nodePath,
                        slice(nodePath, Len(nodePath) - 1), newName)

(***************************************************************************)
(* use-nbt-editor.ts over the heap.  heapRoot is the address the hook's    *)
(* tree state refers to, 0 while no document is loaded.  Each handler is   *)
(* taken with the render that follows it: setTree(newTree) makes the       *)
(* returned root the state.  versions lists every root parseNbtFile or an  *)
(* edit has returned so far, with the tree it stood for when it was        *)
(* returned.  A handler whose cloneTree raises ends before it assigns to   *)
(* any object.                                                             *)
(***************************************************************************)
treeH == IF heapRoot = 0 THEN null ELSE absTree(heap, heapRoot)

\* the path of every node, a negative index under every List, and the
\* empty path
EditPathsH ==
  LET nodes == IF heapRoot = 0 THEN {} ELSE NodesOf(treeH)
  IN {n.path : n \in nodes}
     \cup {Append(n.path, "-1") : n \in {m \in nodes : m.type = TagType_List}}
     \cup {<<>>}

CanEditH ==
  /\ heapRoot # 0
  /\ edits < MaxEdits

\* setTree(newTree), skipped when the call raised; counter is the node id
\* counter the call left
setTreeH(op, threw, result, counter) ==
  /\ edits' = edits + 1
  /\ IF threw THEN UNCHANGED <<heap, heapRoot, versions, nodeIdCounter>>
     ELSE /\ heap' = result.heap
          /\ heapRoot' = result.addr
          /\ versions' = Append(versions,
                                [root |-> result.addr, op |-> op,
                                 snapshot |-> absTree(result.heap, result.addr)])
          /\ nodeIdCounter' = counter
  /\ UNCHANGED <<tree, call, otherVars>>

\* setTree(parsedTree)
setParsedTreeH(built) ==
  /\ heap' = built.heap
  /\ heapRoot' = built.addr
  /\ nodeIdCounter' = built.counter
  /\ versions' = <<[root |-> built.addr, op |-> "parseNbtFile",
                    snapshot |-> absTree(built.heap, built.addr)]>>

parseNbtFileH(stored) ==
  buildTreeNodeH(stored.heap, rootName, TagType_Compound, stored.cell, <<>>,
                 resetNodeIdCounter)

\* loadFile: the objects of the document loaded before go with it
loadFileH(document) ==
  /\ setParsedTreeH(parseNbtFileH(storeValue(<<>>, document)))
  /\ edits' = 0
  /\ UNCHANGED <<tree, call, otherVars>>

updateValueH(nodePath, newValue) ==
  /\ CanEditH
  /\ LET target == findNodeByPath(treeH, nodePath)
     IN IF target = null THEN TRUE ELSE ~isContainerType(target.type)
  /\ setTreeH("updateNodeValue", cloneTreeThrows(treeH),
              updateNodeValueH(heap, heapRoot, nodePath, newValue),
              nodeIdCounter)

addedTreeH(threw, added) ==
  setTreeH("addTag", threw, added, added.counter)

addNewTagH(parentPath, name, type) ==
  /\ CanEditH
  /\ addedTreeH(cloneTreeThrows(treeH),
                addTagH(heapRoot, parentPath, name, type,
                        storeValue(heap, createDefaultValue(type)),
                        nodeIdCounter))

deleteNodeH(nodePath) ==
  /\ CanEditH
  /\ setTreeH("deleteTag", Len(nodePath) > 1 /\ cloneTreeThrows(treeH),
              deleteTagH(heap, heapRoot, nodePath), nodeIdCounter)

renameNodeH(nodePath, newName) ==
  /\ CanEditH
  /\ setTreeH("renameTag", Len(nodePath) > 1 /\ cloneTreeThrows(treeH),
              renameTagH(heap, heapRoot, nodePath, newName), nodeIdCounter)

NextH ==
  \/ \E document \in DocumentsH : loadFileH(document)
  \/ \E nodePath \in EditPathsH, newValue \in NewValues :
       updateValueH(nodePath, newValue)
  \/ \E parentPath \in EditPathsH, name \in NewNames, type \in AddTypes :
       addNewTagH(parentPath, name, type)
  \/ \E nodePath \in EditPathsH : deleteNodeH(nodePath)
  \/ \E nodePath \in EditPathsH, newName \in NewNames :
       renameNodeH(nodePath, newName)

SpecHeap == Init /\ [][NextH]_vars

(***************************************************************************)
(* parser.ts: the conversions between the values of prismarine-nbt and the *)
(* values of types.ts.  More runtime shapes: a bigint, a string, the typed *)
(* arrays and a plain array.  A prismarine list or compound has the shape  *)
(* of ours with a type name (a string) where ours has a TagType.  A 64-bit *)
(* integer is two words of WordBits bits.                                  *)
(***************************************************************************)
BigInt(n) == [k |-> "bigint", v |-> n]
Str(s) == [k |-> "string", v |-> s]
Array(s) == [k |-> "array", v |-> s]
Int8Array(s) == [k |-> "Int8Array", v |-> s]
Int32Array(s) == [k |-> "Int32Array", v |-> s]
BigInt64Array(s) == [k |-> "BigInt64Array", v |-> s]

RECURSIVE pow2(_)
pow2(n) == IF n = 0 THEN 1 ELSE 2 * pow2(n - 1)

\* a typed array stores an element modulo the element's width, signed
asIntN(bits, n) == ((n + pow2(bits - 1)) % pow2(bits)) - pow2(bits - 1)

TypeNames ==
  <<"byte", "short", "int", "long", "float", "double", "byteArray", "string",
    "list", "compound", "intArray", "longArray">>

\* convertTagType: typeMap[type] ?? TagType.End
convertTagType(type) ==
  IF \E i \in 1..Len(TypeNames) : TypeNames[i] = type
  THEN CHOOSE i \in 1..Len(TypeNames) : TypeNames[i] = type
  ELSE TagType_End

\* convertToNbtType
convertToNbtType(type) == IF type = TagType_End THEN "end" ELSE TypeNames[type]

\* BigInt(v[0]) * BigInt(2 ** 32) + BigInt(v[1] >>> 0)
combineLong(high, low) == high * pow2(WordBits) + (low % pow2(WordBits))

\* the long of a prismarine value: a [high, low] array, or a number
toBigInt(value) ==
  IF value.k = "array" THEN combineLong(value.v[1].v, value.v[2].v) ELSE value.v

RECURSIVE convertValue(_, _)
convertValue(type, value) ==
  IF type \in {"byte", "short", "int", "float", "double"} THEN value
  ELSE IF type = "long" THEN BigInt(toBigInt(value))
  ELSE IF type = "string" THEN value
  ELSE IF type = "byteArray"
  THEN Int8Array([i \in 1..Len(value.v) |-> asIntN(8, value.v[i].v)])
  ELSE IF type = "intArray"
  THEN Int32Array([i \in 1..Len(value.v) |-> value.v[i].v])
  ELSE IF type = "longArray"
  THEN BigInt64Array([i \in 1..Len(value.v) |->
                        asIntN(2 * WordBits, toBigInt(value.v[i]))])
  ELSE IF type = "list"
  THEN ListValue(convertTagType(value.v.type),
                 [i \in 1..Len(value.v.value) |->
                    convertValue(value.v.type, value.v.value[i])])
  ELSE IF type = "compound"
  THEN CompoundValue([n \in DOMAIN value.v |->
                        NbtTag(convertTagType(value.v[n].type),
                               convertValue(value.v[n].type, value.v[n].value))])
  ELSE value

\* the high word taken from the bit pattern, like the low word
splitLong_UnsignedHigh(bigVal) ==
  Array(<<Num((bigVal \div pow2(WordBits)) % pow2(WordBits)),
          Num(bigVal % pow2(WordBits))>>)

\* [Number(bigVal >> BigInt(32)), Number(bigVal & BigInt(0xffffffff))]
splitLong(bigVal) ==
  Array(<<Num(bigVal \div pow2(WordBits)), Num(bigVal % pow2(WordBits))>>)

RECURSIVE convertToPrismarineValue(_, _)
convertToPrismarineValue(type, value) ==
  IF type \in {TagType_Byte, TagType_Short, TagType_Int, TagType_Float,
               TagType_Double}
  THEN value
  ELSE IF type = TagType_Long THEN splitLong(value.v)
  ELSE IF type = TagType_String THEN value
  ELSE IF type \in {TagType_ByteArray, TagType_IntArray}
  THEN Array([i \in 1..Len(value.v) |-> Num(value.v[i])])
  ELSE IF type = TagType_LongArray
  THEN Array([i \in 1..Len(value.v) |-> splitLong(value.v[i])])
  ELSE IF type = TagType_List
  THEN ListValue(convertToNbtType(value.v.type),
                 [i \in 1..Len(value.v.value) |->
                    convertToPrismarineValue(value.v.type, value.v.value[i])])
  ELSE IF type = TagType_Compound
  THEN CompoundValue([n \in DOMAIN value.v |->
                        NbtTag(convertToNbtType(value.v[n].type),
                               convertToPrismarineValue(value.v[n].type,
                                                        value.v[n].value))])
  ELSE value

(***************************************************************************)
(* The tags a document holds and the values prismarine-nbt delivers.       *)
(***************************************************************************)
\* the signed words and the 64-bit integers
Words == (0 - pow2(WordBits - 1))..(pow2(WordBits - 1) - 1)
Longs == (0 - pow2(2 * WordBits - 1))..(pow2(2 * WordBits - 1) - 1)

\* the least and the greatest long, -1, 0, and the longs around the sign bit
\* of the low word
LongSamples ==
  {0 - pow2(2 * WordBits - 1), -1, 0, pow2(WordBits - 1) - 1,
   pow2(WordBits - 1), pow2(WordBits) - 1, pow2(2 * WordBits - 1) - 1}

\* the sequences of at most two elements of S
UpTo2(S) == {<<>>} \cup {<<x>> : x \in S} \cup {<<x, y>> : x \in S, y \in S}

NumberKinds ==
  {TagType_Byte, TagType_Short, TagType_Int, TagType_Float, TagType_Double}

ValuesOf(type) ==
  IF type \in NumberKinds THEN {Num(-1), Num(1)}
  ELSE IF type = TagType_Long THEN {BigInt(n) : n \in LongSamples}
  ELSE IF type = TagType_String THEN {Str(""), Str("a")}
  ELSE IF type = TagType_ByteArray THEN {Int8Array(s) : s \in UpTo2({-128, 127})}
  ELSE IF type = TagType_IntArray THEN {Int32Array(s) : s \in UpTo2({-1, 1})}
  ELSE IF type = TagType_LongArray
  THEN {BigInt64Array(s) : s \in UpTo2({0 - pow2(2 * WordBits - 1), -1,
                                        pow2(WordBits) - 1})}
  ELSE {}

LeafKinds ==
  NumberKinds \cup {TagType_Long, TagType_String, TagType_ByteArray,
                    TagType_IntArray, TagType_LongArray}

LeafTags ==
  {NbtTag(TagType_Long, BigInt(n)) : n \in Longs}
    \cup UNION {{NbtTag(type, v) : v \in ValuesOf(type)} : type \in LeafKinds}

\* Lists of leaves, the empty List of kind End among them
LeafLists ==
  {ListValue(TagType_End, <<>>)}
    \cup UNION {{ListValue(type, s) : s \in UpTo2(ValuesOf(type))} :
                  type \in {TagType_Byte, TagType_Long, TagType_String,
                            TagType_ByteArray, TagType_LongArray}}

\* Compounds of a leaf and of a List
LeafCompounds ==
  {EmptyCompound}
    \cup {Compound1("a", NbtTag(type, v)) :
            type \in {TagType_Int}, v \in ValuesOf(TagType_Int)}
    \cup {Compound1("a", NbtTag(type, v)) :
            type \in {TagType_Long}, v \in ValuesOf(TagType_Long)}
    \cup {Compound2("a", NbtTag(TagType_Long, BigInt(-1)),
                    "l", NbtTag(TagType_List, l)) : l \in LeafLists}

\* Lists of Lists and of Compounds, Compounds of Compounds
NestedTags ==
  {NbtTag(TagType_List, ListValue(TagType_List, s)) :
     s \in UpTo2({ListValue(TagType_End, <<>>),
                  ListValue(TagType_Long, <<BigInt(-1)>>),
                  ListValue(TagType_LongArray,
                            <<BigInt64Array(<<-1, pow2(WordBits) - 1>>)>>)})}
    \cup {NbtTag(TagType_List, ListValue(TagType_Compound, s)) :
            s \in UpTo2({EmptyCompound,
                         Compound1("a", NbtTag(TagType_Long, BigInt(-1))),
                         Document3})}
    \cup {NbtTag(TagType_Compound, Compound1("c", NbtTag(TagType_Compound, c))) :
            c \in LeafCompounds}

Tags ==
  LeafTags
    \cup {NbtTag(TagType_List, l) : l \in LeafLists}
    \cup {NbtTag(TagType_Compound, c) : c \in LeafCompounds \cup Documents}
    \cup NestedTags

\* what the decoder delivers for a Long and for a LongArray: a pair of
\* signed words for each 64-bit integer
ParsedLongs == {Array(<<Num(high), Num(low)>>) : high \in Words, low \in Words}

ParsedTags ==
  {[type |-> "long", value |-> v] : v \in ParsedLongs}
    \cup {[type |-> "longArray", value |-> Array(s)] :
            s \in UpTo2({Array(<<Num(-1), Num(-1)>>), Array(<<Num(0), Num(1)>>),
                         Array(<<Num(1), Num(0 - pow2(WordBits - 1))>>)})}

(***************************************************************************)
(* parser.ts: serializeNbtTree and parseNbtBuffer, as far as the           *)
(* conversions go.  call records the conversion made: the kind and the     *)
(* value given, the result, and in input the tag the value given was       *)
(* itself converted from, null when it was not.                            *)
(***************************************************************************)
\* serializeNbtTree: convertToPrismarineValue of a tag of the document
convertTag(tag) ==
  /\ call.op = NoCall.op
  /\ call' = [NoCall EXCEPT !.op = "convertToPrismarineValue",
                            !.type = tag.type, !.value = tag.value,
                            !.result = convertToPrismarineValue(tag.type, tag.value)]
  /\ UNCHANGED <<tree, nodeIdCounter, edits, heapVars, otherVars>>

\* parseNbtBuffer: convertValue of what was written
convertWritten ==
  /\ call.op = "convertToPrismarineValue"
  /\ call.input = null
  /\ call' = [NoCall EXCEPT !.op = "convertValue",
                            !.kind = convertToNbtType(call.type),
                            !.value = call.result,
                            !.input = NbtTag(call.type, call.value),
                            !.result = convertValue(convertToNbtType(call.type),
                                                    call.result)]
  /\ UNCHANGED <<tree, nodeIdCounter, edits, heapVars, otherVars>>

\* parseNbtBuffer: convertValue of a value the decoder delivered
convertParsed(parsed) ==
  /\ call.op = NoCall.op
  /\ call' = [NoCall EXCEPT !.op = "convertValue",
                            !.kind = parsed.type, !.value = parsed.value,
                            !.result = convertValue(parsed.type, parsed.value)]
  /\ UNCHANGED <<tree, nodeIdCounter, edits, heapVars, otherVars>>

\* serializeNbtTree: convertToPrismarineValue of what was parsed
convertConverted ==
  /\ call.op = "convertValue"
  /\ call.input = null
  /\ call' = [NoCall EXCEPT !.op = "convertToPrismarineValue",
                            !.type = convertTagType(call.kind),
                            !.value = call.result,
                            !.input = [kind |-> call.kind, value |-> call.value],
                            !.result = convertToPrismarineValue(
                                         convertTagType(call.kind), call.result)]
  /\ UNCHANGED <<tree, nodeIdCounter, edits, heapVars, otherVars>>

(***************************************************************************)
(* parser.ts: detectCompression.  A buffer is a sequence of bytes; reading *)
(* past its end gives undefined, which is strictly equal to no number.     *)
(***************************************************************************)
Bytes == 0..255

Uint8Array(s) == [k |-> "Uint8Array", v |-> s]

\* buffer[i], i counted from 0
byteAt(buffer, i) ==
  IF i < Len(buffer.v) THEN Num(buffer.v[i + 1]) ELSE undefined

\* the bytes the magic numbers are made of, and their neighbours
MagicBytes == {0, 1, 2, 31, 120, 139, 156, 218, 255}

\* every buffer of at most two bytes, and longer ones over MagicBytes
Buffers ==
  {Uint8Array(<<>>)} \cup {Uint8Array(<<b0>>) : b0 \in Bytes}
    \cup {Uint8Array(<<b0, b1>>) : b0 \in Bytes, b1 \in Bytes}
    \cup {Uint8Array(<<b0, b1, b2>>) :
            b0 \in MagicBytes, b1 \in MagicBytes, b2 \in MagicBytes}

\* the second comparison accepts any flag byte after 0x78
detectCompression_AnyFlag(buffer) ==
  IF byteAt(buffer, 0) = Num(31) /\ byteAt(buffer, 1) = Num(139) THEN "gzip"
  ELSE IF byteAt(buffer, 0) = Num(120) /\ byteAt(buffer, 1) # undefined THEN "zlib"
  ELSE "none"

\* detectCompression
detectCompression(buffer) ==
  IF byteAt(buffer, 0) = Num(31) /\ byteAt(buffer, 1) = Num(139) THEN "gzip"
  ELSE IF /\ byteAt(buffer, 0) = Num(120)
          /\ \/ byteAt(buffer, 1) = Num(1)
             \/ byteAt(buffer, 1) = Num(156)
             \/ byteAt(buffer, 1) = Num(218)
       THEN "zlib"
  ELSE "none"

\* parseNbtFile: detectCompression(buffer)
detect ==
  /\ call.op = NoCall.op
  /\ \E buffer \in Buffers :
       call' = [NoCall EXCEPT !.op = "detectCompression", !.input = buffer,
                              !.result = Str(detectCompression(buffer))]
  /\ UNCHANGED <<tree, nodeIdCounter, edits, heapVars, otherVars>>

NextCodec ==
  \/ \E tag \in Tags : convertTag(tag)
  \/ convertWritten
  \/ \E parsed \in ParsedTags : convertParsed(parsed)
  \/ convertConverted
  \/ detect

SpecCodec == Init /\ [][NextCodec]_vars

(***************************************************************************)
(* Region files.  lib/mca/parser.ts reads them for the viewer and          *)
(* lib/nbt/region.ts for the editor.  The header of a Region holds         *)
(* RegionWidth * RegionWidth slots (1024 in the source) of four bytes in   *)
(* each of its two tables, and a table fills one sector (4096 bytes in     *)
(* the source).                                                            *)
(***************************************************************************)
Slots == RegionWidth * RegionWidth
SectorSize == 4 * Slots

\* ToInt32 of an element read from a buffer: undefined counts 0
ToInt32(x) == IF x = undefined THEN 0 ELSE x.v

\* (buffer[at] << 16) | (buffer[at + 1] << 8) | buffer[at + 2]
readUint24(buffer, at) ==
  ToInt32(byteAt(buffer, at)) * 65536 + ToInt32(byteAt(buffer, at + 1)) * 256
    + ToInt32(byteAt(buffer, at + 2))

\* b << 24, in 32 bits
shiftLeft24(b) == (IF b >= 128 THEN b - 256 ELSE b) * 16777216

\* (buffer[at] << 24) | (buffer[at + 1] << 16) | (buffer[at + 2] << 8) | buffer[at + 3]
readInt32(buffer, at) ==
  shiftLeft24(ToInt32(byteAt(buffer, at))) + readUint24(buffer, at + 1)

\* Map.prototype.set: a key already there keeps its place
mapSet(map, key, value) ==
  IF \E j \in 1..Len(map) : map[j].key = key
  THEN [map EXCEPT ![CHOOSE j \in 1..Len(map) : map[j].key = key].value = value]
  ELSE Append(map, [key |-> key, value |-> value])

\* `${x},${z}`
chunkKey(x, z) == ToString(x) \o "," \o ToString(z)

EmptyRegionData == [chunks |-> <<>>, availableChunks |-> <<>>]

\* mca/parser.ts parseRegionHeader: the loop from slot i on
RECURSIVE parseRegionHeaderFrom(_, _, _)
parseRegionHeaderFrom(buffer, i, data) ==
  IF i >= Slots THEN data
  ELSE LET offset == i * 4
           locationData == readUint24(buffer, offset)
           sectorCount == byteAt(buffer, offset + 3)
           x == i % RegionWidth
           z == i \div RegionWidth
       IN IF locationData = 0 /\ sectorCount = Num(0)
          THEN parseRegionHeaderFrom(buffer, i + 1, data)
          ELSE parseRegionHeaderFrom(buffer, i + 1,
                 [chunks |->
                    mapSet(data.chunks, chunkKey(x, z),
                           [x |-> x, z |-> z, offset |-> locationData,
                            sectorCount |-> sectorCount,
                            timestamp |-> readInt32(buffer, SectorSize + i * 4)]),
                  availableChunks |-> Append(data.availableChunks, <<x, z>>)])

\* mca/parser.ts parseRegionHeader
parseRegionHeader(buffer) == parseRegionHeaderFrom(buffer, 0, EmptyRegionData)

\* nbt/region.ts parseRegionHeader: the loop from slot i on
RECURSIVE parseRegionInfoFrom(_, _, _)
parseRegionInfoFrom(buffer, i, info) ==
  IF i >= Slots THEN info
  ELSE LET offset == i * 4
           locationData == readUint24(buffer, offset)
           sectorCount == byteAt(buffer, offset + 3)
           chunkOffset == locationData * SectorSize
       IN IF locationData = 0 /\ sectorCount = Num(0)
          THEN parseRegionInfoFrom(buffer, i + 1, info)
          ELSE parseRegionInfoFrom(buffer, i + 1,
                 [chunks |->
                    [info.chunks EXCEPT ![i + 1] =
                       [x |-> i % RegionWidth, z |-> i \div RegionWidth,
                        offset |-> locationData,
                        sectorCount |-> sectorCount,
                        timestamp |-> readInt32(buffer, SectorSize + i * 4),
                        compressionType |-> byteAt(buffer, chunkOffset + 4),
                        dataLength |-> readInt32(buffer, chunkOffset) - 1]],
                  chunkCount |-> info.chunkCount + 1])

\* new Array(1024).fill(null)
RECURSIVE fillNull(_)
fillNull(n) == IF n = 0 THEN <<>> ELSE Append(fillNull(n - 1), null)

\* nbt/region.ts parseRegionHeader
parseRegionInfo(buffer) ==
  parseRegionInfoFrom(buffer, 0, [chunks |-> fillNull(Slots), chunkCount |-> 0])

(***************************************************************************)
(* pako and prismarine-nbt are not part of the repository.  Their          *)
(* streams are stood for by framed byte sequences: a gzip stream is        *)
(* 0x1f 0x8b, the data and a trailer holding the length of the data, a     *)
(* zlib stream is 0x78 0x9c, the data and the same trailer, and an NBT     *)
(* document is the Compound kind byte, its content and the End byte.       *)
(* Anything else makes the library throw.                                  *)
(***************************************************************************)
gzip(data) == <<31, 139>> \o data \o <<Len(data)>>
deflate(data) == <<120, 156>> \o data \o <<Len(data)>>
Document(content) == <<TagType_Compound>> \o content \o <<TagType_End>>

Threw == [threw |-> TRUE]
Ok(value) == [threw |-> FALSE, value |-> value]

unframe(data, b0, b1) ==
  IF /\ Len(data.v) >= 3
     /\ data.v[1] = b0
     /\ data.v[2] = b1
     /\ data.v[Len(data.v)] = Len(data.v) - 3
  THEN Ok(Uint8Array(SubSeq(data.v, 3, Len(data.v) - 1)))
  ELSE Threw

\* pako.ungzip
ungzip(data) == unframe(data, 31, 139)

\* pako.inflate
inflate(data) == unframe(data, 120, 156)

\* nbt.parse: the name and the content of the document
nbtParse(data) ==
  IF /\ Len(data.v) >= 2
     /\ data.v[1] = TagType_Compound
     /\ data.v[Len(data.v)] = TagType_End
  THEN Ok([name |-> "", value |-> SubSeq(data.v, 2, Len(data.v) - 1)])
  ELSE Threw

\* Uint8Array.prototype.slice(start, end) with 0 <= start: both ends are
\* clamped to the length
sliceBytes(buffer, start, end) ==
  LET len == Len(buffer.v)
      from == IF start > len THEN len ELSE start
      to == IF end < 0 THEN (IF len + end < 0 THEN 0 ELSE len + end)
            ELSE IF end > len THEN len ELSE end
  IN Uint8Array(SubSeq(buffer.v, from + 1, to))

(***************************************************************************)
(* Region files to read.                                                   *)
(***************************************************************************)
\* a 32-bit big-endian length of less than 65536
int32Bytes(n) == <<0, 0, n \div 256, n % 256>>

\* a chunk as its sector holds it: declared length, compression type, payload
chunkBytes(length, compressionType, payload) ==
  int32Bytes(length) \o <<compressionType>> \o payload

\* what a slot of the location table may say about its chunk: entry tells
\* whether the offset is the sector of the chunk ("sector"), zero with a
\* count of one ("count"), the sector with a count of zero ("offset"), or a
\* sector far past the end of the file ("far")
Chunk(entry, length, compressionType, payload) ==
  [entry |-> entry, length |-> length, compressionType |-> compressionType,
   payload |-> payload]

WellFormed(compressionType, payload) ==
  Chunk("sector", Len(payload) + 1, compressionType, payload)

ChunkVariants ==
  {WellFormed(1, gzip(Document(<<1>>))),
   WellFormed(2, deflate(Document(<<2>>))),
   WellFormed(3, Document(<<3>>)),
   \* compression types outside 1..3
   WellFormed(0, Document(<<4>>)),
   WellFormed(4, deflate(Document(<<5>>))),
   \* payloads that do not decompress, or do not parse
   WellFormed(2, <<120, 156, 10, 7>>),
   WellFormed(3, <<10, 8>>),
   \* a declared length that runs past the sector, and past the file when
   \* the sector is the last
   Chunk("sector", SectorSize + 8, 3, Document(<<9>>)),
   Chunk("sector", SectorSize + 8, 2, deflate(Document(<<10>>))),
   \* a chunk outside the file
   Chunk("far", 4, 3, Document(<<11>>)),
   \* entries with only a count, and only an offset
   Chunk("count", 4, 3, Document(<<12>>)),
   Chunk("offset", 4, 3, Document(<<13>>))}

Absent == [entry |-> "absent"]

\* the chunks a second present slot may hold
Companions ==
  {WellFormed(2, deflate(Document(<<2>>))),
   WellFormed(4, deflate(Document(<<5>>))),
   Chunk("sector", SectorSize + 8, 3, Document(<<9>>))}

\* the chunks of the slots: at most two of them present, in either order
Layouts ==
  {[i \in 0..(Slots - 1) |-> IF i = a THEN u ELSE IF i = b THEN v ELSE Absent] :
     a \in 0..(Slots - 1), b \in 0..(Slots - 1),
     u \in ChunkVariants \cup {Absent}, v \in Companions \cup {Absent}}

Stored(chunk) == chunk.entry \in {"sector", "offset"}

\* the sector that holds the chunk of slot i: the sectors after the header
\* are taken in slot order
sectorOf(layout, i) == 2 + Cardinality({j \in 0..(i - 1) : Stored(layout[j])})

locationBytes(layout, i) ==
  LET entry == layout[i].entry
  IN IF entry = "absent" THEN <<0, 0, 0, 0>>
     ELSE IF entry = "count" THEN <<0, 0, 0, 1>>
     ELSE IF entry = "far" THEN <<0, 1, 0, 1>>
     ELSE <<0, 0, sectorOf(layout, i), IF entry = "offset" THEN 0 ELSE 1>>

\* the timestamp of a present slot; the first byte of the timestamps of the
\* even slots is above 127
timestampBytes(layout, i) ==
  IF layout[i] = Absent THEN <<0, 0, 0, 0>>
  ELSE IF i % 2 = 0 THEN <<200, 1, 2, i + 1>>
  ELSE <<1, 2, 3, i + 1>>

RECURSIVE zeros(_)
zeros(n) == IF n <= 0 THEN <<>> ELSE <<0>> \o zeros(n - 1)

sectorBytes(chunk) ==
  LET bytes == chunkBytes(chunk.length, chunk.compressionType, chunk.payload)
  IN bytes \o zeros(SectorSize - Len(bytes))

\* the bytes of the slots from i on, each slot giving bytesOf(layout, i)
RECURSIVE locationTable(_, _)
locationTable(layout, i) ==
  IF i >= Slots THEN <<>>
  ELSE locationBytes(layout, i) \o locationTable(layout, i + 1)

RECURSIVE timestampTable(_, _)
timestampTable(layout, i) ==
  IF i >= Slots THEN <<>>
  ELSE timestampBytes(layout, i) \o timestampTable(layout, i + 1)

RECURSIVE chunkSectors(_, _)
chunkSectors(layout, i) ==
  IF i >= Slots THEN <<>>
  ELSE (IF Stored(layout[i]) THEN sectorBytes(layout[i]) ELSE <<>>)
         \o chunkSectors(layout, i + 1)

fileBytes(layout) ==
  locationTable(layout, 0) \o timestampTable(layout, 0) \o chunkSectors(layout, 0)

\* the whole file, and the file cut inside the location table, after the
\* header and inside the payload of the first chunk
Cuts(bytes) ==
  {Len(bytes)}
    \cup {n \in {0, 3, 2 * SectorSize, 2 * SectorSize + 7} : n < Len(bytes)}

FilesOf(layout, bytes) ==
  {[layout |-> layout, buffer |-> Uint8Array(SubSeq(bytes, 1, n))] : n \in Cuts(bytes)}

RegionFilesOf(layouts) ==
  UNION {FilesOf(layout, fileBytes(layout)) : layout \in layouts}

(***************************************************************************)
(* Reading a Region file: the viewer (app/mca/page.tsx) and the editor     *)
(* (lib/nbt/region.ts parseRegionFile).                                    *)
(***************************************************************************)
\* handleFileSelect / parseRegionFile: the two parseRegionHeader
readHeader ==
  /\ call.op = NoCall.op
  /\ \E file \in RegionFilesOf(Layouts) :
       call' = [NoCall EXCEPT !.op = "parseRegionHeader",
                              !.input = file,
                              !.result = [data |-> parseRegionHeader(file.buffer),
                                          info |-> parseRegionInfo(file.buffer)]]
  /\ UNCHANGED <<tree, nodeIdCounter, edits, heapVars, otherVars>>

\* the switch on the compression type of readChunkData and extractChunk
decompress(compressionType, compressedData) ==
  IF compressionType = Num(1) THEN ungzip(compressedData)
  ELSE IF compressionType = Num(2) THEN inflate(compressedData)
  ELSE IF compressionType = Num(3) THEN Ok(compressedData)
  ELSE Ok(null)

\* what a try block gives: null when it threw
orNull(outcome) == IF outcome.threw THEN null ELSE outcome.value

\* mca/parser.ts readChunkData
readChunkData(buffer, location) ==
  LET chunkOffset == location.offset * SectorSize
      dataLength == readInt32(buffer, chunkOffset)
      compressionType == byteAt(buffer, chunkOffset + 4)
      dataStart == chunkOffset + 5
      dataEnd == dataStart + dataLength - 1
      compressedData == sliceBytes(buffer, dataStart, dataEnd)
  IN orNull(decompress(compressionType, compressedData))

\* parseNbtBuffer: the chunk document as a tree
parseNbtBuffer(decompressed) ==
  LET parsed == nbtParse(decompressed)
  IN IF parsed.threw THEN Threw
     ELSE Ok([name |-> IF parsed.value.name = "" THEN "Data" ELSE parsed.value.name,
              type |-> TagType_Compound, value |-> parsed.value.value])

\* nbt/region.ts extractChunk
extractChunk(buffer, chunkInfo) ==
  LET chunkOffset == chunkInfo.offset * SectorSize
      dataStart == chunkOffset + 5
      dataEnd == dataStart + chunkInfo.dataLength
      compressedData == sliceBytes(buffer, dataStart, dataEnd)
      decompressed == decompress(chunkInfo.compressionType, compressedData)
  IN IF decompressed.threw \/ decompressed.value = null THEN null
     ELSE orNull(parseNbtBuffer(decompressed.value))

\* `Chunk [${chunkInfo.x}, ${chunkInfo.z}]`
chunkName(x, z) == "Chunk [" \o ToString(x) \o ", " \o ToString(z) \o "]"

\* name.match(/\[(\d+), (\d+)\]/) and the two parseInt
matchChunkName(name) ==
  IF \E x \in 0..(RegionWidth - 1), z \in 0..(RegionWidth - 1) : chunkName(x, z) = name
  THEN CHOOSE m \in [x : 0..(RegionWidth - 1), z : 0..(RegionWidth - 1)] :
         chunkName(m.x, m.z) = name
  ELSE null

\* the comparison of rootChildren.sort
compareChunks(a, b) ==
  LET aMatch == matchChunkName(a.name)
      bMatch == matchChunkName(b.name)
  IN IF aMatch = null \/ bMatch = null THEN 0
     ELSE IF aMatch.z # bMatch.z THEN aMatch.z - bMatch.z
     ELSE aMatch.x - bMatch.x

\* Array.prototype.sort, stable: node goes after the last element that is
\* not greater
insertChunk(sorted, node) ==
  LET after == {k \in 1..Len(sorted) : compareChunks(sorted[k], node) <= 0}
      at == IF after = {} THEN 0 ELSE CHOOSE k \in after : \A j \in after : j <= k
  IN SubSeq(sorted, 1, at) \o <<node>> \o SubSeq(sorted, at + 1, Len(sorted))

RECURSIVE sortChunks(_, _)
sortChunks(nodes, sorted) ==
  IF nodes = <<>> THEN sorted
  ELSE sortChunks(Tail(nodes), insertChunk(sorted, Head(nodes)))

\* parseRegionFile: the node of a chunk that was extracted
chunkNode(chunkInfo, chunkData) ==
  [id |-> "chunk-" \o ToString(chunkInfo.x) \o "-" \o ToString(chunkInfo.z),
   name |-> chunkName(chunkInfo.x, chunkInfo.z),
   type |-> TagType_Compound,
   value |-> chunkData.value,
   path |-> <<"Region", chunkName(chunkInfo.x, chunkInfo.z)>>]

\* the loop gives up at the first chunk that fails
RECURSIVE parseChunksFrom_Aborting(_, _, _, _)
parseChunksFrom_Aborting(buffer, info, i, rootChildren) ==
  IF i >= Slots THEN rootChildren
  ELSE IF info.chunks[i + 1] = null
       THEN parseChunksFrom_Aborting(buffer, info, i + 1, rootChildren)
       ELSE IF extractChunk(buffer, info.chunks[i + 1]) = null THEN rootChildren
       ELSE parseChunksFrom_Aborting(buffer, info, i + 1,
              Append(rootChildren,
                     chunkNode(info.chunks[i + 1],
                               extractChunk(buffer, info.chunks[i + 1]))))

\* parseRegionFile: the loop over the slots from i on
RECURSIVE parseChunksFrom(_, _, _, _)
parseChunksFrom(buffer, info, i, rootChildren) ==
  IF i >= Slots THEN rootChildren
  ELSE IF info.chunks[i + 1] = null
       THEN parseChunksFrom(buffer, info, i + 1, rootChildren)
       ELSE parseChunksFrom(buffer, info, i + 1,
              IF extractChunk(buffer, info.chunks[i + 1]) = null THEN rootChildren
              ELSE Append(rootChildren,
                          chunkNode(info.chunks[i + 1],
                                    extractChunk(buffer, info.chunks[i + 1]))))

\* nbt/region.ts parseRegionFile: the children of the tree it returns
regionChildren(buffer) ==
  sortChunks(parseChunksFrom(buffer, parseRegionInfo(buffer), 0, <<>>), <<>>)

\* Map.prototype.get
mapGet(map, key) ==
  IF \E j \in 1..Len(map) : map[j].key = key
  THEN map[CHOOSE j \in 1..Len(map) : map[j].key = key].value
  ELSE undefined

\* extractBlocks of the document the content stands for: a block for each
\* byte of the content, at the corner of the chunk
chunkBlocksOf(chunkNBT, globalX, globalZ) ==
  [k \in 1..Len(chunkNBT.value) |->
     [position |-> <<globalX * 16, 0, globalZ * 16>>,
      blockId |-> chunkNBT.value[k]]]

\* handleSelectChunks: the loop over the selected chunks, for one loaded
\* region at (0, 0)
RECURSIVE selectChunksFrom(_, _, _, _)
selectChunksFrom(buffer, data, chunks, allBlocks) ==
  IF chunks = <<>> THEN allBlocks
  ELSE LET globalX == Head(chunks)[1]
           globalZ == Head(chunks)[2]
           location == mapGet(data.chunks, chunkKey(globalX, globalZ))
       IN IF location = undefined
          THEN selectChunksFrom(buffer, data, Tail(chunks), allBlocks)
          ELSE IF readChunkData(buffer, location) = null
          THEN selectChunksFrom(buffer, data, Tail(chunks), allBlocks)
          ELSE IF nbtParse(readChunkData(buffer, location)).threw
          THEN selectChunksFrom(buffer, data, Tail(chunks), allBlocks)
          ELSE selectChunksFrom(buffer, data, Tail(chunks),
                 allBlocks \o chunkBlocksOf(
                                nbtParse(readChunkData(buffer, location)).value,
                                globalX, globalZ))

\* nbt/region.ts parseRegionFile
parseRegionFile ==
  /\ call.op = NoCall.op
  /\ \E file \in RegionFilesOf(Layouts) :
       call' = [NoCall EXCEPT !.op = "parseRegionFile",
                              !.input = file,
                              !.result = regionChildren(file.buffer)]
  /\ UNCHANGED <<tree, nodeIdCounter, edits, heapVars, otherVars>>

\* app/mca/page.tsx handleSelectChunks, every chunk of the region selected
handleSelectChunks ==
  /\ call.op = NoCall.op
  /\ \E file \in RegionFilesOf(Layouts) :
       call' = [NoCall EXCEPT !.op = "handleSelectChunks",
                              !.input = file,
                              !.result =
                                 selectChunksFrom(
                                   file.buffer, parseRegionHeader(file.buffer),
                                   parseRegionHeader(file.buffer).availableChunks,
                                   <<>>)]
  /\ UNCHANGED <<tree, nodeIdCounter, edits, heapVars, otherVars>>

\* readChunkData and extractChunk for the chunk of every slot the header
\* reports, slot i on
RECURSIVE readChunksFrom(_, _, _, _)
readChunksFrom(buffer, data, info, i) ==
  IF i >= Slots THEN <<>>
  ELSE IF info.chunks[i + 1] = null THEN readChunksFrom(buffer, data, info, i + 1)
  ELSE <<[location |-> mapGet(data.chunks, chunkKey(info.chunks[i + 1].x,
                                                    info.chunks[i + 1].z)),
          payload |-> readChunkData(
                        buffer, mapGet(data.chunks, chunkKey(info.chunks[i + 1].x,
                                                             info.chunks[i + 1].z))),
          chunk |-> extractChunk(buffer, info.chunks[i + 1])]>>
         \o readChunksFrom(buffer, data, info, i + 1)

\* loadBiomeDataForRegion / parseRegionFile: each chunk read on its own
readChunks ==
  /\ call.op = NoCall.op
  /\ \E file \in RegionFilesOf(Layouts) :
       call' = [NoCall EXCEPT !.op = "readChunkData",
                              !.input = file,
                              !.result = readChunksFrom(
                                           file.buffer, parseRegionHeader(file.buffer),
                                           parseRegionInfo(file.buffer), 0)]
  /\ UNCHANGED <<tree, nodeIdCounter, edits, heapVars, otherVars>>

NextRegion ==
  \/ readHeader
  \/ readChunks
  \/ parseRegionFile
  \/ handleSelectChunks

SpecRegion == Init /\ [][NextRegion]_vars

(***************************************************************************)
(* mca/parser.ts extractBlocks.  A chunk document is what simplifyNbt      *)
(* leaves of it: records whose missing fields are undefined, arrays as     *)
(* Array(...).  A block name is the sequence of the pieces it is made of,  *)
(* the prefix "minecraft:" being one piece.                                *)
(***************************************************************************)
SECTION_SIZE == 16 * 16 * 16

\* a ?? b
orElse(a, b) == IF a = undefined THEN b ELSE a

\* array[index], undefined past the end
elementAt(array, index) ==
  IF index >= 0 /\ index < Len(array.v) THEN Num(array.v[index + 1]) ELSE undefined

\* get4BitData: the bytes of a byteArray are signed
get4BitData(uint8Arr, index) ==
  IF index % 2 = 0
  THEN ToInt32(elementAt(uint8Arr, index \div 2)) % 16
  ELSE ToInt32(elementAt(uint8Arr, index \div 2)) \div 16

min(a, b) == IF a < b THEN a ELSE b

NaN == [k |-> "NaN", v |-> 0]

Skipped == [skipped |-> TRUE]
IsBlock(entry) == entry # Skipped

\* y and z taken from each other's bits
positionOf_Swapped(i, xOffset, yOffset, zOffset) ==
  <<(i % 16) + xOffset, ((i \div 16) % 16) + yOffset, (i \div 256) + zOffset>>

\* the position of entry i of a section
positionOf(i, xOffset, yOffset, zOffset) ==
  <<(i % 16) + xOffset, (i \div 256) + yOffset, ((i \div 16) % 16) + zOffset>>

\* extractBlocks: entry i of a section that has Blocks
flatBlock(section, i, xOffset, yOffset, zOffset, biomes) ==
  LET blockId ==
        IF section.Add = undefined THEN elementAt(section.Blocks, i)
        ELSE IF elementAt(section.Blocks, i) = undefined THEN NaN
        ELSE Num(elementAt(section.Blocks, i).v + get4BitData(section.Add, i) * 256)
      blockLight ==
        IF section.BlockLight # undefined THEN get4BitData(section.BlockLight, i) ELSE 0
      skyLight ==
        IF section.SkyLight # undefined THEN get4BitData(section.SkyLight, i) ELSE 15
      biomeIdx == (((i \div 16) % 16) * 16 + (i % 16)) % 256
      biome == IF biomes.k = "array"
               THEN (IF ToInt32(elementAt(biomes, biomeIdx)) = 0 THEN 4
                     ELSE ToInt32(elementAt(biomes, biomeIdx)))
               ELSE 4
  IN IF blockId = Num(0) THEN Skipped
     ELSE [position |-> positionOf(i, xOffset, yOffset, zOffset),
           blockId |-> blockId,
           blockData |-> IF section.Data # undefined
                         THEN get4BitData(section.Data, i) ELSE 0,
           lighting |-> min(blockLight + skyLight, 15),
           biome |-> biome,
           blockName |-> undefined,
           properties |-> undefined]

\* extractBlocks: the blocks of a section that has Blocks
flatBlocks(section, xOffset, yOffset, zOffset, biomes) ==
  SelectSeq([k \in 1..SECTION_SIZE |->
               flatBlock(section, k - 1, xOffset, yOffset, zOffset, biomes)],
            IsBlock)

\* the pieces of block names
minecraft == "minecraft:"
AirNames == {Str(<<minecraft, "air">>), Str(<<"air">>)}

\* name.replace('minecraft:', ''): the first occurrence goes
RECURSIVE replaceMinecraft(_)
replaceMinecraft(name) ==
  IF name = <<>> THEN <<>>
  ELSE IF Head(name) = minecraft THEN Tail(name)
  ELSE <<Head(name)>> \o replaceMinecraft(Tail(name))

\* getBlockIdFromName: blockNameMap
blockNameMap ==
  [stone |-> 1, granite |-> 1, diorite |-> 1, andesite |-> 1,
   grass_block |-> 2, grass |-> 2, dirt |-> 3, coarse_dirt |-> 3,
   podzol |-> 3, cobblestone |-> 4, oak_planks |-> 5, spruce_planks |-> 5,
   birch_planks |-> 5, jungle_planks |-> 5, acacia_planks |-> 5,
   dark_oak_planks |-> 5, bedrock |-> 7, water |-> 8, flowing_water |-> 8,
   lava |-> 10, flowing_lava |-> 10, sand |-> 12, red_sand |-> 12,
   gravel |-> 13, gold_ore |-> 14, deepslate_gold_ore |-> 14,
   iron_ore |-> 15, deepslate_iron_ore |-> 15, coal_ore |-> 16,
   deepslate_coal_ore |-> 16, oak_log |-> 17, spruce_log |-> 17,
   birch_log |-> 17, jungle_log |-> 17, oak_leaves |-> 18,
   spruce_leaves |-> 18, birch_leaves |-> 18, jungle_leaves |-> 18,
   sandstone |-> 24, tall_grass |-> 31, short_grass |-> 31, fern |-> 31,
   dead_bush |-> 32, white_wool |-> 35, wool |-> 35, dandelion |-> 37,
   yellow_flower |-> 37, poppy |-> 38, rose |-> 38, stone_slab |-> 44,
   smooth_stone_slab |-> 44, bricks |-> 45, brick |-> 45,
   mossy_cobblestone |-> 48, obsidian |-> 49, torch |-> 50,
   wall_torch |-> 50, diamond_ore |-> 56, deepslate_diamond_ore |-> 56,
   redstone_ore |-> 73, deepslate_redstone_ore |-> 73, snow |-> 78,
   snow_layer |-> 78, ice |-> 79, snow_block |-> 80, cactus |-> 81,
   clay |-> 82, sugar_cane |-> 83, pumpkin |-> 86, netherrack |-> 87,
   soul_sand |-> 88, glowstone |-> 89, stone_bricks |-> 98,
   mossy_stone_bricks |-> 98, cracked_stone_bricks |-> 98,
   brown_mushroom_block |-> 99, red_mushroom_block |-> 100, mycelium |-> 110,
   emerald_ore |-> 129, deepslate_emerald_ore |-> 129, quartz_block |-> 155,
   terracotta |-> 159, acacia_leaves |-> 161, dark_oak_leaves |-> 161,
   acacia_log |-> 162, dark_oak_log |-> 162, hay_block |-> 170,
   hardened_clay |-> 172, coal_block |-> 173, packed_ice |-> 174,
   red_sandstone |-> 179, deepslate |-> 1, tuff |-> 1, calcite |-> 1,
   copper_ore |-> 15, deepslate_copper_ore |-> 15]

\* getBlockIdFromName
getBlockIdFromName(name) ==
  LET n == replaceMinecraft(name.v)
  IN IF Len(n) = 1 /\ n[1] \in DOMAIN blockNameMap THEN blockNameMap[n[1]] ELSE 1

\* a palette entry: a string, or an object with Name and Properties
Block(Name, Properties) == [k |-> "object", Name |-> Name, Properties |-> Properties]

\* typeof block === 'string' ? block : block?.Name
blockNameOf(block) ==
  IF block = undefined THEN undefined
  ELSE IF block.k = "string" THEN block
  ELSE block.Name

\* !blockName || blockName === 'minecraft:air' || blockName === 'air'
noBlock(blockName) ==
  blockName = undefined \/ blockName = Str(<<>>) \/ blockName \in AirNames

\* Math.ceil(Math.log2(n)) for n >= 1
RECURSIVE ceilLog2(_)
ceilLog2(n) == IF n <= 1 THEN 0 ELSE 1 + ceilLog2((n + 1) \div 2)

\* Math.max(4, Math.ceil(Math.log2(palette.length)))
bitsPerBlockOf(palette) ==
  IF ceilLog2(Len(palette.v)) > 4 THEN ceilLog2(Len(palette.v)) ELSE 4

\* Math.floor(64 / bitsPerBlock): a word has 2 * WordBits bits
blocksPerLongOf(bitsPerBlock) == (2 * WordBits) \div bitsPerBlock

\* the low half of a [high, low] word added with its sign
paletteIndexOf_SignedLow(longVal, bitOffset, bitsPerBlock, numbers) ==
  IF longVal.k = "bigint"
  THEN Num((longVal.v \div pow2(bitOffset)) % pow2(bitsPerBlock))
  ELSE IF longVal.k = "array"
  THEN Num((((longVal.v[1].v * pow2(WordBits)) + longVal.v[2].v) \div pow2(bitOffset))
             % pow2(bitsPerBlock))
  ELSE undefined

\* the palette index a word holds at a bit offset; none for a word that is
\* neither a bigint, nor a [high, low] array, nor (1.18+ only) a number
paletteIndexOf(longVal, bitOffset, bitsPerBlock, numbers) ==
  IF longVal.k = "bigint"
  THEN Num((longVal.v \div pow2(bitOffset)) % pow2(bitsPerBlock))
  ELSE IF longVal.k = "array"
  THEN Num((combineLong(longVal.v[1].v, longVal.v[2].v) \div pow2(bitOffset))
             % pow2(bitsPerBlock))
  ELSE IF numbers /\ longVal.k = "number"
  THEN Num((longVal.v \div pow2(bitOffset % 32)) % pow2(bitsPerBlock))
  ELSE undefined

\* String(v) of each property
propertiesOf(block) ==
  IF block.k = "object" /\ block.Properties # undefined
  THEN [k |-> "object",
        v |-> [j \in 1..Len(block.Properties.v) |->
                 [key |-> block.Properties.v[j].key,
                  value |-> Str(block.Properties.v[j].value.v)]]]
  ELSE undefined

\* the record of a block of the palette, if it is one to show
namedBlock(block, i, xOffset, yOffset, zOffset, properties) ==
  IF noBlock(blockNameOf(block)) THEN Skipped
  ELSE [position |-> positionOf(i, xOffset, yOffset, zOffset),
        blockId |-> Num(getBlockIdFromName(blockNameOf(block))),
        blockData |-> 0,
        lighting |-> 15,
        biome |-> 4,
        blockName |-> Str(replaceMinecraft(blockNameOf(block).v)),
        properties |-> properties]

\* entry i of a section whose palette indices are packed into words
paletteBlock(palette, words, bitsPerBlock, blocksPerLong, i, xOffset, yOffset, zOffset, nested) ==
  IF i \div blocksPerLong >= Len(words.v) THEN Skipped
  ELSE IF paletteIndexOf(words.v[(i \div blocksPerLong) + 1],
                         (i % blocksPerLong) * bitsPerBlock, bitsPerBlock,
                         nested) = undefined
  THEN Skipped
  ELSE IF paletteIndexOf(words.v[(i \div blocksPerLong) + 1],
                         (i % blocksPerLong) * bitsPerBlock, bitsPerBlock,
                         nested).v >= Len(palette.v)
  THEN Skipped
  ELSE namedBlock(
         palette.v[paletteIndexOf(words.v[(i \div blocksPerLong) + 1],
                                  (i % blocksPerLong) * bitsPerBlock,
                                  bitsPerBlock, nested).v + 1],
         i, xOffset, yOffset, zOffset,
         IF nested
         THEN propertiesOf(
                palette.v[paletteIndexOf(words.v[(i \div blocksPerLong) + 1],
                                         (i % blocksPerLong) * bitsPerBlock,
                                         bitsPerBlock, nested).v + 1])
         ELSE undefined)

\* the blocks of a section whose palette indices are packed into words
paletteBlocks(palette, words, xOffset, yOffset, zOffset, nested) ==
  SelectSeq([k \in 1..SECTION_SIZE |->
               paletteBlock(palette, words, bitsPerBlockOf(palette),
                            blocksPerLongOf(bitsPerBlockOf(palette)), k - 1,
                            xOffset, yOffset, zOffset, nested)],
            IsBlock)

\* extractBlocks: a section that has Palette and BlockStates
indexedBlocks(section, xOffset, zOffset) ==
  IF Len(section.Palette.v) = 0 THEN <<>>
  ELSE IF Len(section.BlockStates.v) = 0 THEN <<>>
  ELSE paletteBlocks(section.Palette, section.BlockStates, xOffset,
                     ToInt32(section.Y) * 16, zOffset, FALSE)

\* extractBlocks: the whole section is the block palette[0]
filledBlocks(block, xOffset, yOffset, zOffset) ==
  SelectSeq([k \in 1..SECTION_SIZE |->
               namedBlock(block, k - 1, xOffset, yOffset, zOffset, undefined)],
            IsBlock)

\* a fill for a palette of one entry only
nestedBlocks_SingleOnly(blockStates, xOffset, yOffset, zOffset) ==
  IF blockStates.palette = undefined THEN <<>>
  ELSE IF Len(blockStates.palette.v) = 1 /\ blockStates.data = undefined
  THEN filledBlocks(blockStates.palette.v[1], xOffset, yOffset, zOffset)
  ELSE IF blockStates.data = undefined THEN <<>>
  ELSE paletteBlocks(blockStates.palette, blockStates.data, xOffset, yOffset,
                     zOffset, TRUE)

\* extractBlocks: a section that has block_states
nestedBlocks(blockStates, xOffset, yOffset, zOffset) ==
  IF blockStates.palette = undefined THEN <<>>
  ELSE IF Len(blockStates.palette.v) = 0 THEN <<>>
  ELSE IF blockStates.data = undefined
  THEN filledBlocks(blockStates.palette.v[1], xOffset, yOffset, zOffset)
  ELSE IF Len(blockStates.data.v) = 0
  THEN filledBlocks(blockStates.palette.v[1], xOffset, yOffset, zOffset)
  ELSE paletteBlocks(blockStates.palette, blockStates.data, xOffset, yOffset,
                     zOffset, TRUE)

\* extractBlocks: the blocks of one section
sectionBlocks(section, xOffset, zOffset, biomes) ==
  IF section = undefined THEN <<>>
  ELSE IF section.Blocks # undefined
  THEN flatBlocks(section, xOffset,
                  ToInt32(orElse(section.Y, orElse(section.y, Num(0)))) * 16,
                  zOffset, biomes)
  ELSE IF section.Palette # undefined /\ section.BlockStates # undefined
  THEN indexedBlocks(section, xOffset, zOffset)
  ELSE IF section.block_states # undefined
  THEN nestedBlocks(section.block_states, xOffset,
                    ToInt32(orElse(section.Y, orElse(section.y, Num(0)))) * 16,
                    zOffset)
  ELSE <<>>

RECURSIVE sectionsBlocks(_, _, _, _)
sectionsBlocks(sections, xOffset, zOffset, biomes) ==
  IF sections = <<>> THEN <<>>
  ELSE sectionBlocks(Head(sections), xOffset, zOffset, biomes)
         \o sectionsBlocks(Tail(sections), xOffset, zOffset, biomes)

\* a || b for objects and arrays
orIfMissing(a, b) == IF a = undefined THEN b ELSE a

\* level.Sections || level.sections || level.section
sectionsOf(level) ==
  orIfMissing(level.Sections, orIfMissing(level.sections, level.section))

\* extractBlocks, from level on
levelBlocks(level, regionChunkX, regionChunkZ) ==
  IF sectionsOf(level) = undefined THEN <<>>
  ELSE IF sectionsOf(level).k # "array" THEN <<>>
  ELSE sectionsBlocks(
         sectionsOf(level).v,
         ToInt32(orElse(level.xPos, orElse(level.XPos, Num(regionChunkX)))) * 16,
         ToInt32(orElse(level.zPos, orElse(level.ZPos, Num(regionChunkZ)))) * 16,
         level.Biomes)

\* extractBlocks
extractBlocks(chunkNBT, regionChunkX, regionChunkZ) ==
  IF chunkNBT = undefined THEN <<>>
  ELSE levelBlocks(orIfMissing(chunkNBT.Level, chunkNBT), regionChunkX, regionChunkZ)

(***************************************************************************)
(* Chunk documents to extract blocks from.                                 *)
(***************************************************************************)
NoSection ==
  [Y |-> undefined, y |-> undefined, Blocks |-> undefined, Add |-> undefined,
   Data |-> undefined, BlockLight |-> undefined, SkyLight |-> undefined,
   Palette |-> undefined, BlockStates |-> undefined, block_states |-> undefined]

NoLevel ==
  [Level |-> undefined, Sections |-> undefined, sections |-> undefined,
   section |-> undefined, xPos |-> undefined, XPos |-> undefined,
   zPos |-> undefined, ZPos |-> undefined, Biomes |-> undefined]

\* a chunk of the old layout: the sections under Level, with xPos and zPos
LevelChunk(x, z, sections) ==
  [NoLevel EXCEPT !.Level = [NoLevel EXCEPT !.Sections = Array(sections),
                                            !.xPos = Num(x), !.zPos = Num(z)]]

\* a chunk of the 1.18+ layout: the sections at the root
RootChunk(sections) == [NoLevel EXCEPT !.sections = Array(sections)]

\* SECTION_SIZE bytes, zero but for the entries given as <<index, byte>>
bytesWith(entries) ==
  Array([k \in 1..SECTION_SIZE |->
           IF \E e \in entries : e[1] = k - 1
           THEN (CHOOSE e \in entries : e[1] = k - 1)[2]
           ELSE 0])

\* the ids of a flat section: one block at a corner, an edge or inside, of
\* an id below or above 127 (a byte is signed), or two blocks
FlatEntries ==
  {{<<i, id>>} : i \in {0, 1, 15, 16, 255, 256, SECTION_SIZE - 1}, id \in {1, -97}}
    \cup {{<<0, 1>>, <<SECTION_SIZE - 1, 2>>}, {}}

FlatSectionsOf(flatEntries) ==
  {[NoSection EXCEPT !.Y = Num(Y), !.Blocks = bytesWith(entries)] :
     Y \in {-1, 0, 4}, entries \in flatEntries}

ChunkCoordinates == {<<0, 0>>, <<1, 2>>, <<-1, 3>>}

FlatChunksAt(coordinates) ==
  {[chunkNBT |-> LevelChunk(at[1], at[2], <<section>>),
    regionChunkX |-> at[1], regionChunkZ |-> at[2]] :
     at \in coordinates, section \in FlatSectionsOf(FlatEntries)}
    \cup {[chunkNBT |-> RootChunk(<<section>>),
           regionChunkX |-> at[1], regionChunkZ |-> at[2]] :
            at \in coordinates, section \in FlatSectionsOf(FlatEntries)}

\* SECTION_SIZE / 2 bytes of nibbles, zero but for the first
nibblesWith(first) ==
  Array([k \in 1..(SECTION_SIZE \div 2) |-> IF k = 1 THEN first ELSE 0])

\* flat sections with an Add array: the ids of entries 0 and 1 are extended
\* by the low and the high nibble of the first byte of Add; bytes of 128 and
\* above come as negative numbers (-97 is 159, -15 is 241)
AddBytes == {0, 33, -15}

AddSectionsOf(addBytes) ==
  {[NoSection EXCEPT !.Y = Num(0),
                     !.Blocks = bytesWith({<<0, even>>, <<1, odd>>}),
                     !.Add = nibblesWith(add)] :
     even \in {0, 1, -97}, odd \in {0, 1, -97}, add \in addBytes}

AddChunksOf(addBytes) ==
  {[chunkNBT |-> RootChunk(<<section>>), regionChunkX |-> 0, regionChunkZ |-> 0] :
     section \in AddSectionsOf(addBytes)}

\* block names, with and without the prefix
stone == Str(<<minecraft, "stone">>)
dirt == Str(<<"dirt">>)
air == Str(<<"air">>)
minecraftAir == Str(<<minecraft, "air">>)

\* the Properties of a palette entry
Properties(key, value) == [k |-> "object", v |-> <<[key |-> key, value |-> Str(value)]>>]

\* palettes of one and of several entries, of strings and of objects
FillPalettes ==
  {<<stone>>, <<dirt>>, <<air>>, <<minecraftAir>>,
   <<Block(stone, undefined)>>, <<Block(minecraftAir, undefined)>>,
   <<Block(dirt, Properties("snowy", "false"))>>,
   <<stone, dirt>>, <<dirt, air, stone>>, <<air, stone>>,
   <<Block(minecraftAir, undefined), Block(stone, undefined)>>,
   <<Block(stone, undefined), Block(minecraftAir, undefined)>>}

\* 1.18+ sections with a palette and no data: data missing, or empty
FillSectionsOf(palettes) ==
  {[NoSection EXCEPT !.Y = Num(Y),
                     !.block_states = [palette |-> Array(palette), data |-> data]] :
     Y \in {-4, 0}, palette \in palettes, data \in {undefined, Array(<<>>)}}
    \cup {[NoSection EXCEPT !.y = Num(1),
                            !.block_states = [palette |-> Array(palette),
                                              data |-> undefined]] :
            palette \in palettes}

FillChunksOf(palettes) ==
  {[chunkNBT |-> RootChunk(<<section>>), regionChunkX |-> 1, regionChunkZ |-> 2] :
     section \in FillSectionsOf(palettes)}

\* the chunk documents of the flat format and of the 1.18+ format without
\* data
ChunkDocumentsAt(coordinates) ==
  FlatChunksAt(coordinates) \cup FillChunksOf(FillPalettes) \cup AddChunksOf(AddBytes)

\* handleSelectChunks: extractBlocks(chunkNBT, globalX, globalZ)
extractChunkBlocks ==
  /\ call.op = NoCall.op
  /\ \E chunk \in ChunkDocumentsAt(ChunkCoordinates) :
       call' = [NoCall EXCEPT !.op = "extractBlocks",
                              !.input = chunk,
                              !.result = extractBlocks(chunk.chunkNBT,
                                                       chunk.regionChunkX,
                                                       chunk.regionChunkZ)]
  /\ UNCHANGED <<tree, nodeIdCounter, edits, heapVars, otherVars>>

(***************************************************************************)
(* Sections whose palette indices are packed into words.  A word has       *)
(* 2 * WordBits bits; it is stored signed, as a bigint or as the pair      *)
(* [high, low] of its signed halves.                                       *)
(***************************************************************************)
\* the block of palette index n
blockNamed(n) == Str(<<minecraft, "block", ToString(n)>>)

\* a palette of the given length, of distinct blocks: strings or objects,
\* and air at index 0 or not
paletteOf(length, objects, airFirst) ==
  [j \in 1..length |->
     IF objects
     THEN Block(IF airFirst /\ j = 1 THEN minecraftAir ELSE blockNamed(j - 1),
                IF j % 2 = 0 THEN Properties("axis", "y") ELSE undefined)
     ELSE IF airFirst /\ j = 1 THEN air ELSE blockNamed(j - 1)]

\* <<length, objects, airFirst>> of the palettes: from one entry up to as
\* many as an index of a whole word can tell apart
PaletteShapes ==
  {<<1, FALSE, FALSE>>, <<2, FALSE, TRUE>>, <<5, TRUE, FALSE>>,
   <<16, FALSE, FALSE>>, <<17, TRUE, TRUE>>, <<32, FALSE, FALSE>>,
   <<pow2(2 * WordBits), TRUE, FALSE>>}

IndexPatterns == {"ramp", "stride", "last", "layers"}

\* SECTION_SIZE palette indices below length
indicesOf(pattern, length) ==
  [k \in 1..SECTION_SIZE |->
     IF pattern = "ramp" THEN (k - 1) % length
     ELSE IF pattern = "stride" THEN (7 * (k - 1) + 3) % length
     ELSE IF pattern = "last" THEN length - 1
     ELSE ((k - 1) \div 256) % length]

\* the number of bits of an entry: at least 4, and enough for length - 1
bitsPerEntryOf(length) ==
  CHOOSE bits \in 4..(2 * WordBits) :
    /\ pow2(bits) >= length
    /\ bits = 4 \/ pow2(bits - 1) < length

entriesPerWordOf(length) == (2 * WordBits) \div bitsPerEntryOf(length)

\* the unsigned word that holds the entries from index first on, entry
\* first + j at bit j * bitsPerEntry
RECURSIVE packWord(_, _, _, _, _)
packWord(indices, first, j, bitsPerEntry, entriesPerWord) ==
  IF j >= entriesPerWord \/ first + j >= Len(indices) THEN 0
  ELSE indices[first + j + 1] * pow2(j * bitsPerEntry)
         + packWord(indices, first, j + 1, bitsPerEntry, entriesPerWord)

\* the unsigned words of a sequence of indices
packIndices(indices, bitsPerEntry, entriesPerWord) ==
  [w \in 1..((Len(indices) + entriesPerWord - 1) \div entriesPerWord) |->
     packWord(indices, (w - 1) * entriesPerWord, 0, bitsPerEntry, entriesPerWord)]

\* a word as the NBT library hands it over
storedWord(unsigned, pairs) ==
  IF pairs
  THEN Array(<<Num(asIntN(WordBits, unsigned \div pow2(WordBits))),
               Num(asIntN(WordBits, unsigned % pow2(WordBits)))>>)
  ELSE BigInt(asIntN(2 * WordBits, unsigned))

storedWords(words, pairs) ==
  Array([w \in 1..Len(words) |-> storedWord(words[w], pairs)])

\* the section of a palette and packed indices, in the 1.18+ format
\* (nested) or in the one before it
packedSection(palette, words, nested) ==
  IF nested
  THEN [NoSection EXCEPT !.Y = Num(-2),
                         !.block_states = [palette |-> Array(palette),
                                           data |-> words]]
  ELSE [NoSection EXCEPT !.Y = Num(3),
                         !.Palette = Array(palette),
                         !.BlockStates = words]

PackedChunksOf(shapes) ==
  {[indices |-> indicesOf(pattern, shape[1]),
    chunk |-> [chunkNBT |->
                 RootChunk(<<packedSection(
                               paletteOf(shape[1], shape[2], shape[3]),
                               storedWords(packIndices(indicesOf(pattern, shape[1]),
                                                       bitsPerEntryOf(shape[1]),
                                                       entriesPerWordOf(shape[1])),
                                           pairs),
                               nested)>>),
               regionChunkX |-> 0, regionChunkZ |-> 0]] :
     shape \in shapes, pattern \in IndexPatterns,
     pairs \in BOOLEAN, nested \in BOOLEAN}

\* handleSelectChunks: extractBlocks of a chunk with a packed section; the
\* indices that were packed are kept with the call
extractPackedBlocks ==
  /\ call.op = NoCall.op
  /\ \E packed \in PackedChunksOf(PaletteShapes) :
       call' = [NoCall EXCEPT !.op = "extractBlocks",
                              !.input = packed.chunk,
                              !.value = [k |-> "indices", v |-> packed.indices],
                              !.result = extractBlocks(packed.chunk.chunkNBT,
                                                       packed.chunk.regionChunkX,
                                                       packed.chunk.regionChunkZ)]
  /\ UNCHANGED <<tree, nodeIdCounter, edits, heapVars, otherVars>>

NextBlocks ==
  \/ extractChunkBlocks
  \/ extractPackedBlocks

SpecBlocks == Init /\ [][NextBlocks]_vars

(***************************************************************************)
(* nbt-editor-dialog.tsx.  The dialog of the save-folder view is handed    *)
(* the simplified data of a file (what nbt.simplify returns: plain         *)
(* objects, arrays, numbers and strings) and turns it into a tree with     *)
(* convertToTree, which numbers the nodes from its own idCounter, starting *)
(* at 0 (`node-${idCounter.value++}`).  Its edit handlers call the same    *)
(* functions of parser.ts as the hook, so addTag draws the id of a new     *)
(* node from the module's nodeIdCounter.                                   *)
(***************************************************************************)
Object(entries) == [k |-> "object", v |-> entries]

isNumber(data) == data.k = "number"

RECURSIVE convertToTree(_, _, _, _)
RECURSIVE convertItems(_, _, _)
convertToTree(data, name, path, idCounter) ==
  LET id == idCounter
      after == idCounter + 1
      currentPath == Append(path, name)
      leaf(type, value) ==
        [node |-> [id |-> id, name |-> name, type |-> type, value |-> value,
                   path |-> currentPath, children |-> <<>>],
         counter |-> after]
  IN IF data = null \/ data = undefined THEN leaf(TagType_Byte, Num(0))
     ELSE IF data.k = "number"
     THEN IF data.v >= -128 /\ data.v <= 127 THEN leaf(TagType_Byte, data)
          ELSE IF data.v >= -32768 /\ data.v <= 32767 THEN leaf(TagType_Short, data)
          ELSE leaf(TagType_Int, data)
     ELSE IF data.k = "bigint" THEN leaf(TagType_Long, data)
     ELSE IF data.k = "string" THEN leaf(TagType_String, data)
     ELSE IF data.k = "array"
     THEN IF Len(data.v) > 0 /\ \A i \in 1..Len(data.v) : isNumber(data.v[i])
          THEN leaf(TagType_IntArray,
                    Int32Array([i \in 1..Len(data.v) |-> data.v[i].v]))
          ELSE LET entries == [i \in 1..Len(data.v) |-> <<String(i - 1), data.v[i]>>]
                   converted == convertItems(entries, currentPath, after)
                   children == converted.nodes
                   listType == IF Len(children) > 0 THEN children[1].type
                               ELSE TagType_Compound
               IN [node |-> [id |-> id, name |-> name, type |-> TagType_List,
                             value |-> ListValue(listType,
                                         [i \in 1..Len(children) |-> children[i].value]),
                             path |-> currentPath, children |-> children],
                   counter |-> converted.counter]
     ELSE LET converted == convertItems(data.v, currentPath, after)
              children == converted.nodes
              lastNamed(n) == CHOOSE i \in 1..Len(children) :
                                /\ children[i].name = n
                                /\ \A j \in (i + 1)..Len(children) : children[j].name # n
          IN [node |-> [id |-> id, name |-> name, type |-> TagType_Compound,
                        value |-> CompoundValue(
                                    [n \in {children[i].name : i \in 1..Len(children)} |->
                                       NbtTag(children[lastNamed(n)].type,
                                              children[lastNamed(n)].value)]),
                        path |-> currentPath, children |-> children],
              counter |-> converted.counter]

\* data.map / Object.entries(data).map, the idCounter passed along
convertItems(entries, path, idCounter) ==
  IF entries = <<>> THEN [nodes |-> <<>>, counter |-> idCounter]
  ELSE LET first == convertToTree(Head(entries)[2], Head(entries)[1], path, idCounter)
           rest == convertItems(Tail(entries), path, first.counter)
       IN [nodes |-> <<first.node>> \o rest.nodes, counter |-> rest.counter]

\* the data the save-folder view opens the dialog on: level.dat, a player
\* file, a data file
LevelData ==
  Object(<<<<"c", Object(<<<<"b", Num(2)>>>>)>>,
           <<"b", Num(1)>>,
           <<"l", Array(<<Object(<<>>), Object(<<<<"d", Num(300)>>>>)>>)>>>>)
PlayerData ==
  Object(<<<<"m", Array(<<Num(5), Num(6), Num(70000)>>)>>,
           <<"c", Object(<<>>)>>>>)
DataFile == Object(<<>>)
DialogData == {LevelData, PlayerData, DataFile}

\* the effect on [open, nbtData]: convertToTree(nbtData, "root") and setTree;
\* a run opens the dialog once, which keeps nodeIdCounter bounded
openDialog(nbtData) ==
  /\ call = NoCall
  /\ tree = null
  /\ call' = [NoCall EXCEPT !.op = "convertToTree",
                            !.result = convertToTree(nbtData, "root", <<>>, 0).node]
  /\ UNCHANGED <<tree, nodeIdCounter, edits, heapVars, otherVars>>

NextDialog ==
  \/ \E nbtData \in DialogData : openDialog(nbtData)
  \/ Render
  \/ \E nodePath \in EditPaths(tree), newValue \in NewValues :
       updateValue(nodePath, newValue)
  \/ \E parentPath \in EditPaths(tree), name \in NewNames, type \in AddTypes :
       addNewTag(parentPath, name, type)
  \/ \E nodePath \in EditPaths(tree) : deleteNode(nodePath)
  \/ \E nodePath \in EditPaths(tree), newName \in NewNames :
       renameNode(nodePath, newName)

SpecDialog == Init /\ [][NextDialog]_vars

(***************************************************************************)
(* use-nbt-editor.ts, the whole hook.  loadFile is asynchronous: the call  *)
(* runs up to the first await (resetNodeIdCounter included), the parse     *)
(* goes on in steps between which other handlers and other loads run, and  *)
(* the continuation of loadFile sets tree, fileInfo and isRegion in one    *)
(* batch.  loads holds the calls in flight, oldest first.  A file is given *)
(* by its name, by what nbt.parse makes of its bytes and by the chunk      *)
(* documents extractChunk finds in it.  The ids "region-root" and          *)
(* "chunk-x-z" are the numbers regionRootId and chunkId(x, z), below the   *)
(* ids node-n.  An edit handler and the render that applies its setTree    *)
(* are one step here.  latest is a history variable: the file of the last  *)
(* loadFile call since the editor was last closed.                         *)
(***************************************************************************)
\* number of loadFile calls in flight at once
MaxLoads == 2

regionRootId == 0 - 1
chunkId(x, z) == 0 - (2 + x + 32 * z)

\* the extension /\.(mcr|mca)$/i looks at, in lower case
lowerCaseExtension(filename) ==
  IF filename = "r.0.0.MCA" THEN ".mca"
  ELSE IF filename = "level.dat" THEN ".dat"
  ELSE ".nbt"

isRegionFile(filename) == lowerCaseExtension(filename) \in {".mcr", ".mca"}

LevelDat ==
  [name |-> "level.dat",
   parsed |-> Ok(Compound1("c", NbtTag(TagType_Compound,
                                       Compound1("b", NbtTag(TagType_Int, Num(2)))))),
   compression |-> "gzip",
   chunks |-> <<>>]
BrokenNbt ==
  [name |-> "broken.nbt", parsed |-> Threw, compression |-> "none",
   chunks |-> <<>>]
RegionMca ==
  [name |-> "r.0.0.MCA", parsed |-> Threw, compression |-> "none",
   chunks |-> <<[x |-> 0, z |-> 0,
                 document |-> Compound1("b", NbtTag(TagType_Int, Num(1)))],
                [x |-> 1, z |-> 0,
                 document |-> Compound1("c", NbtTag(TagType_Int, Num(2)))]>>]
Files == {LevelDat, BrokenNbt, RegionMca}

\* region.ts updateChildPaths
RECURSIVE updateChildPaths(_, _)
updateChildPaths(node, parentPath) ==
  LET path == Append(parentPath, node.name)
  IN [node EXCEPT !.path = path,
                  !.children = [i \in 1..Len(node.children) |->
                                  updateChildPaths(node.children[i], path)]]

\* parseRegionFile: the node of the chunk that extractChunk read (a tree
\* that parseNbtBuffer built from the counter as it stood)
chunkTreeNode(chunk, counter) ==
  LET chunkData == buildTreeNode(rootName, NbtTag(TagType_Compound, chunk.document),
                                 <<>>, counter)
      path == <<"Region", chunkName(chunk.x, chunk.z)>>
  IN [node |-> [id |-> chunkId(chunk.x, chunk.z),
                name |-> chunkName(chunk.x, chunk.z),
                type |-> TagType_Compound,
                value |-> chunkData.node.value,
                path |-> path,
                children |-> [i \in 1..Len(chunkData.node.children) |->
                                updateChildPaths(chunkData.node.children[i], path)]],
      counter |-> chunkData.counter]

\* parseRegionFile: the tree it returns
regionTree(filename, rootChildren) ==
  [id |-> regionRootId, name |-> filename, type |-> TagType_Compound,
   value |-> EmptyCompound, path |-> <<filename>>,
   children |-> sortChunks(rootChildren, <<>>)]

NbtFileInfo(file) == [name |-> file.name, compression |-> file.compression]
RegionFileInfo(file) == [filename |-> file.name, chunkCount |-> Len(file.chunks)]

\* loadFile up to the first await: parseRegionFile or parseNbtFile has reset
\* the counter and waits for file.arrayBuffer()
useNbtEditor_loadFile(file) ==
  /\ call = NoCall
  /\ Len(loads) < MaxLoads
  /\ nodeIdCounter' = resetNodeIdCounter
  /\ loads' = Append(loads, [file |-> file, at |-> 0, nodes |-> <<>>,
                             parsed |-> FALSE, failed |-> FALSE, tree |-> null])
  /\ latest' = file
  /\ UNCHANGED <<tree, call, edits, heapVars, retired, hookVars, clipVars, zipVars>>

\* the parse of the k-th load goes on to its next await: parseNbtFile
\* builds the tree, parseRegionFile the node of one more chunk or, after
\* the last chunk, the root
parseStep(k) ==
  /\ call = NoCall
  /\ k \in 1..Len(loads)
  /\ ~loads[k].parsed
  /\ LET load == loads[k]
         file == load.file
     IN IF isRegionFile(file.name)
        THEN IF load.at < Len(file.chunks)
             THEN LET built == chunkTreeNode(file.chunks[load.at + 1], nodeIdCounter)
                  IN /\ loads' = [loads EXCEPT ![k].at = load.at + 1,
                                               ![k].nodes = Append(load.nodes, built.node)]
                     /\ nodeIdCounter' = built.counter
             ELSE /\ loads' = [loads EXCEPT ![k].parsed = TRUE,
                                            ![k].tree = regionTree(file.name, load.nodes)]
                  /\ UNCHANGED nodeIdCounter
        ELSE IF file.parsed.threw
             THEN /\ loads' = [loads EXCEPT ![k].parsed = TRUE, ![k].failed = TRUE]
                  /\ UNCHANGED nodeIdCounter
             ELSE LET built == buildTreeNode(rootName,
                                             NbtTag(TagType_Compound, file.parsed.value),
                                             <<>>, nodeIdCounter)
                  IN /\ loads' = [loads EXCEPT ![k].parsed = TRUE, ![k].tree = built.node]
                     /\ nodeIdCounter' = built.counter
  /\ UNCHANGED <<tree, call, edits, heapVars, retired, hookVars, clipVars, latest, zipVars>>

without(s, k) == SubSeq(s, 1, k - 1) \o SubSeq(s, k + 1, Len(s))

\* the continuation of loadFile after `await parse...File(file)`, and its
\* catch block
completeLoad(k) ==
  /\ call = NoCall
  /\ k \in 1..Len(loads)
  /\ loads[k].parsed
  /\ loads' = without(loads, k)
  /\ IF loads[k].failed
     THEN /\ tree' = null
          /\ fileInfo' = null
          /\ UNCHANGED <<isRegion, modified, edits, retired>>
     ELSE /\ tree' = loads[k].tree
          /\ fileInfo' = IF isRegionFile(loads[k].file.name)
                         THEN RegionFileInfo(loads[k].file)
                         ELSE NbtFileInfo(loads[k].file)
          /\ isRegion' = isRegionFile(loads[k].file.name)
          /\ modified' = FALSE
          /\ edits' = 0
          /\ retired' = {}
  /\ UNCHANGED <<nodeIdCounter, call, heapVars, clipVars, latest, zipVars>>

closeFile ==
  /\ call = NoCall
  /\ tree' = null
  /\ fileInfo' = null
  /\ modified' = FALSE
  /\ isRegion' = FALSE
  /\ latest' = null
  /\ UNCHANGED <<nodeIdCounter, call, edits, heapVars, retired, clipVars, loads, zipVars>>

\* the paths the tree view passes to the handlers: node.path of the nodes
\* it shows
NodePaths(root) == IF root = null THEN {} ELSE {n.path : n \in NodesOf(root)}

CanEditTree ==
  /\ call = NoCall
  /\ tree # null
  /\ edits < MaxEdits
  /\ ~cloneTreeThrows(tree)

\* setTree(newTree); setModified(true), and the render that applies them
setTreeModified(newTree) ==
  /\ tree' = newTree
  /\ modified' = TRUE
  /\ edits' = edits + 1
  /\ retired' = retired \cup (IdsOf(tree) \ IdsOf(newTree))
  /\ UNCHANGED <<call, heapVars, fileInfo, isRegion, loads, latest, zipVars>>

useNbtEditor_updateValue(nodePath, newValue) ==
  /\ CanEditTree
  /\ LET target == findNodeByPath(tree, nodePath)
     IN IF target = null THEN TRUE ELSE ~isContainerType(target.type)
  /\ setTreeModified(updateNodeValue(tree, nodePath, newValue))
  /\ UNCHANGED <<nodeIdCounter, clipVars>>

useNbtEditor_addNewTag(parentPath, name, type) ==
  /\ CanEditTree
  /\ LET added == addTag(tree, parentPath, name, type, createDefaultValue(type),
                         nodeIdCounter)
     IN /\ setTreeModified(added.tree)
        /\ nodeIdCounter' = added.counter
  /\ UNCHANGED clipVars

useNbtEditor_deleteNode(nodePath) ==
  /\ CanEditTree
  /\ setTreeModified(deleteTag(tree, nodePath))
  /\ UNCHANGED <<nodeIdCounter, clipVars>>

useNbtEditor_renameNode(nodePath, newName) ==
  /\ CanEditTree
  /\ setTreeModified(renameTag(tree, nodePath, newName))
  /\ UNCHANGED <<nodeIdCounter, clipVars>>

\* parser.ts serializeNbtTree: the document handed to nbt.writeUncompressed
\* and the compression of compressData
serializeNbtTree(root, compression) ==
  [compression |-> compression,
   name |-> root.name,
   type |-> "compound",
   value |-> convertToPrismarineValue(root.type, root.value)]

\* toolbar.tsx: the save button is disabled unless canSave
canSave_RegionToo(info, region, changed) == info # null /\ changed

canSave(info, region, changed) == info # null /\ ~region /\ changed

\* use-nbt-editor.ts saveFile: the download it starts, null when it returns
\* at once
saveFile ==
  IF tree = null \/ fileInfo = null THEN null
  ELSE [download |-> IF "name" \in DOMAIN fileInfo THEN fileInfo.name
                     ELSE fileInfo.filename,
        data |-> serializeNbtTree(tree,
                   IF "compression" \in DOMAIN fileInfo THEN fileInfo.compression
                   ELSE "gzip")]

\* a click on the save button of the toolbar, which calls saveFile unless
\* the button is disabled; call.result is the download the browser gets
clickSave ==
  /\ call = NoCall
  /\ IF canSave(fileInfo, isRegion, modified) /\ saveFile # null
     THEN /\ call' = [NoCall EXCEPT !.op = "saveFile", !.input = tree,
                                    !.result = saveFile]
          /\ modified' = FALSE
     ELSE /\ call' = [NoCall EXCEPT !.op = "saveFile", !.input = tree]
          /\ UNCHANGED modified
  /\ UNCHANGED <<tree, nodeIdCounter, edits, heapVars, retired, fileInfo,
                 isRegion, clipVars, loads, latest, zipVars>>

\* region.ts serializeRegionFile
serializeRegionFile(root, originalBuffer) == Threw

callSerializeRegionFile ==
  /\ call = NoCall
  /\ tree # null
  /\ loads = <<>>
  /\ LET outcome == serializeRegionFile(tree, Uint8Array(<<>>))
     IN call' = [NoCall EXCEPT !.op = "serializeRegionFile", !.input = tree,
                               !.threw = outcome.threw]
  /\ UNCHANGED <<tree, nodeIdCounter, edits, heapVars, otherVars>>

\* the call is over
returnFromCall ==
  /\ call.op \in {"serializeRegionFile", "saveFile", "pasteNode"}
  /\ call' = NoCall
  /\ UNCHANGED <<tree, nodeIdCounter, edits, heapVars, otherVars>>

\* one file after the other, edited while no other is being loaded, and saved
NextSave ==
  \/ \E file \in Files : loads = <<>> /\ useNbtEditor_loadFile(file)
  \/ parseStep(1)
  \/ completeLoad(1)
  \/ closeFile
  \/ \E nodePath \in NodePaths(tree), newValue \in NewValues :
       loads = <<>> /\ useNbtEditor_updateValue(nodePath, newValue)
  \/ \E parentPath \in NodePaths(tree), name \in NewNames, type \in AddTypes :
       loads = <<>> /\ useNbtEditor_addNewTag(parentPath, name, type)
  \/ \E nodePath \in NodePaths(tree) : loads = <<>> /\ useNbtEditor_deleteNode(nodePath)
  \/ \E nodePath \in NodePaths(tree), newName \in NewNames :
       loads = <<>> /\ useNbtEditor_renameNode(nodePath, newName)
  \/ clickSave
  \/ callSerializeRegionFile
  \/ returnFromCall

SpecSave == Init /\ [][NextSave]_vars

\* files opened while others are still being loaded
NextLoads ==
  \/ \E file \in Files : useNbtEditor_loadFile(file)
  \/ \E k \in 1..MaxLoads : parseStep(k)
  \/ \E k \in 1..MaxLoads : completeLoad(k)
  \/ closeFile

SpecLoads == Init /\ [][NextLoads]_vars

(***************************************************************************)
(* use-nbt-editor.ts: copyNode, cutNode, pasteNode.  cutNodeRef is the     *)
(* ref of the hook.  pasteNode calls setTree twice when the clipboard was  *)
(* cut, both times with a tree computed from the tree of the last render;  *)
(* the render applies the last one.  call records the paste: the parent    *)
(* path, whether the clipboard was cut or copied, and the trees before and *)
(* after.                                                                  *)
(***************************************************************************)
PlayerDat ==
  [name |-> "player.nbt", parsed |-> Ok(Document1), compression |-> "gzip",
   chunks |-> <<>>]

PastedNames == {pastedName(NameOrder[i], k) : i \in 1..Len(NameOrder), k \in 1..3}

\* the nodes the tree view offers to copy or cut: every node that is not
\* itself the result of a paste under a taken name
CopyNodes(root) ==
  IF root = null THEN {} ELSE {n \in NodesOf(root) : n.name \notin PastedNames}

copyNode(node) ==
  /\ call = NoCall
  /\ ~cloneTreeThrows(node)
  /\ clipboard' = cloneTree(node)
  /\ cutNodeRef' = null
  /\ UNCHANGED <<tree, nodeIdCounter, call, edits, heapVars, retired, hookVars,
                 loads, latest, zipVars>>

cutNode(node) ==
  /\ call = NoCall
  /\ ~cloneTreeThrows(node)
  /\ clipboard' = cloneTree(node)
  /\ cutNodeRef' = node
  /\ UNCHANGED <<tree, nodeIdCounter, call, edits, heapVars, retired, hookVars,
                 loads, latest, zipVars>>

\* the while loop of pasteNode
RECURSIVE uniqueName(_, _, _, _)
uniqueName(name, clipboardName, existingNames, counter) ==
  IF name \in existingNames
  THEN uniqueName(pastedName(clipboardName, counter), clipboardName,
                  existingNames, counter + 1)
  ELSE name

\* the last of the queued setTree calls takes effect
lastOf(queued) == queued[Len(queued)]

pasteNode(parentPath) ==
  /\ call = NoCall
  /\ tree # null
  /\ clipboard # null
  /\ edits < MaxEdits
  /\ ~cloneTreeThrows(tree)
  /\ LET parentNode == findNodeByPath(tree, parentPath)
         name == IF parentNode # null /\ parentNode.type = TagType_Compound
                 THEN uniqueName(clipboard.name, clipboard.name,
                                 {parentNode.children[i].name :
                                    i \in 1..Len(parentNode.children)}, 1)
                 ELSE clipboard.name
         added == addTag(tree, parentPath, name, clipboard.type, clipboard.value,
                         nodeIdCounter)
         queued == IF cutNodeRef # null
                   THEN <<deleteTag(tree, cutNodeRef.path), added.tree>>
                   ELSE <<added.tree>>
     IN /\ tree' = lastOf(queued)
        /\ nodeIdCounter' = added.counter
        /\ retired' = retired \cup (IdsOf(tree) \ IdsOf(lastOf(queued)))
        /\ call' = [NoCall EXCEPT !.op = "pasteNode", !.path = parentPath,
                                  !.kind = IF cutNodeRef # null THEN "cut" ELSE "copy",
                                  !.input = tree, !.result = lastOf(queued)]
  /\ cutNodeRef' = null
  /\ modified' = TRUE
  /\ edits' = edits + 1
  /\ UNCHANGED <<heapVars, fileInfo, isRegion, clipboard, loads, latest, zipVars>>

NextClipboard ==
  \/ tree = null /\ loads = <<>> /\ useNbtEditor_loadFile(PlayerDat)
  \/ parseStep(1)
  \/ completeLoad(1)
  \/ \E node \in CopyNodes(tree) : copyNode(node)
  \/ \E node \in CopyNodes(tree) : cutNode(node)
  \/ \E parentPath \in NodePaths(tree) : pasteNode(parentPath)
  \/ returnFromCall

SpecClipboard == Init /\ [][NextClipboard]_vars

(***************************************************************************)
(* Vocabulary of the claims.                                               *)
(***************************************************************************)
EditOps == {"updateNodeValue", "addTag", "deleteTag", "renameTag"}

\* the trees of a state: the one the editor shows and the one a call returned
TreesOfState == {t \in {tree, call.result} : t # null}

\* the call of the state is an edit that returned a tree
Returned(op) == call.op = op /\ ~call.threw

ChildNames(node) == [i \in 1..Len(node.children) |-> node.children[i].name]
ChildIds(node) == [i \in 1..Len(node.children) |-> node.children[i].id]

\* C1: starting from a freshly parsed tree, after any sequence of addTag,
\* deleteTag and renameTag calls (updateNodeValue calls among them or not),
\* the children of every Compound node are sorted by name.
SortedByName(children) ==
  \A i \in 1..(Len(children) - 1) :
    localeCompare(children[i].name, children[i + 1].name) <= 0

ValueAndChildrenAgree(n) ==
  IF n.type = TagType_Compound
  THEN /\ n.value.k = "compound"
       /\ {n.children[i].name : i \in 1..Len(n.children)} = DOMAIN n.value.v
       /\ Len(n.children) = Cardinality(DOMAIN n.value.v)
       /\ \A i \in 1..Len(n.children) :
            n.value.v[n.children[i].name] =
              NbtTag(n.children[i].type, n.children[i].value)
  ELSE IF n.type = TagType_List
  THEN /\ n.value.k = "list"
       /\ Len(n.children) = Len(n.value.v.value)
       /\ \A i \in 1..Len(n.children) :
            n.children[i].value = n.value.v.value[i]
  ELSE TRUE

C2_ValueAndChildrenInSync ==
  \A t \in TreesOfState : \A n \in NodesOf(t) : ValueAndChildrenAgree(n)

\* C3: updateNodeValue, addTag, deleteTag and renameTag assign to no object of
\* the tree they are given: every root returned so far, by parseNbtFile or by
\* an edit, still stands for the tree it stood for when it was returned,
\* node by node and value by value, whatever edits were applied to it or to
\* the trees derived from it since.
C3_InputTreesUntouched ==
  \A i \in 1..Len(versions) :
    absTree(heap, versions[i].root) = versions[i].snapshot

\* two edits in a row have each returned a new root for a different tree
C3_Witness ==
  /\ Len(versions) = 3
  /\ versions[2].root # versions[1].root
  /\ versions[3].root # versions[2].root
  /\ versions[2].snapshot # versions[1].snapshot
  /\ versions[3].snapshot # versions[2].snapshot

\* the arguments of the call of the state
ParentPath == slice(call.path, Len(call.path) - 1)
NodeName == call.path[Len(call.path)]

\* s without its element at 0-based index k
WithoutIndex(s, k) == SubSeq(s, 1, k) \o SubSeq(s, k + 2, Len(s))

\* C4: deleteTag of child k (0 <= k < n) of a List with n children yields
\* n-1 children named "0".."n-2", in their original relative order, and the
\* value array without element k; addTag on a List with n children appends
\* one child named n; so the child names of every List are "0".."len-1".
C4_ListDeleteCase ==
  /\ Returned("deleteTag")
  /\ Len(call.path) > 1
  /\ LET parent == findNodeByPath(call.input, ParentPath)
         index == parseInt(NodeName)
     IN /\ parent # null
        /\ parent.type = TagType_List
        /\ ~index.nan
        /\ index.n >= 0
        /\ index.n < Len(parent.children)
        /\ NodeName = String(index.n)

C4_ListAddCase ==
  /\ Returned("addTag")
  /\ LET parent == findNodeByPath(call.input, call.path)
     IN /\ parent # null
        /\ parent.type = TagType_List

C4_ListChildrenNumbered ==
  /\ \A t \in TreesOfState :
       \A n \in NodesOf(t) :
         n.type = TagType_List =>
           \A i \in 1..Len(n.children) : n.children[i].name = String(i - 1)
  /\ C4_ListDeleteCase =>
       LET before == findNodeByPath(call.input, ParentPath)
           after == findNodeByPath(call.result, ParentPath)
           k == parseInt(NodeName).n
       IN /\ after # null
          /\ Len(after.children) = Len(before.children) - 1
          /\ ChildIds(after) = WithoutIndex(ChildIds(before), k)
          /\ after.value.v.value = WithoutIndex(before.value.v.value, k)
  /\ C4_ListAddCase =>
       LET before == findNodeByPath(call.input, call.path)
           after == findNodeByPath(call.result, call.path)
           n == Len(before.children)
       IN /\ after # null
          /\ Len(after.children) = n + 1
          /\ after.children[n + 1].name = String(n)
          /\ SubSeq(ChildIds(after), 1, n) = ChildIds(before)

\* C5: for a freshly parsed document, findNodeByPath(root, []) and
\* findNodeByPath(root, root.path) return the root, and
\* findNodeByPath(root, n.path) returns n for every node n of the tree.
C5_FreshPathsResolve ==
  call.op = "parseNbtFile" =>
    LET root == call.result
    IN /\ findNodeByPath(root, <<>>) = root
       /\ findNodeByPath(root, root.path) = root
       /\ \A n \in NodesOf(root) : findNodeByPath(root, n.path) = n

\* a parsed document with a node three levels below the root, under a List
C5_Witness ==
  /\ call.op = "parseNbtFile"
  /\ \E n \in NodesOf(call.result) :
       /\ Len(n.path) = 4
       /\ n.path[3] = "1"
       /\ findNodeByPath(call.result, n.path) = n

\* C6: findNodeByPath returns null whenever a segment of a non-empty path is
\* unmatched, the first segment (against the root's name) included.
RECURSIVE Descends(_, _)
Descends(node, rest) ==
  \/ rest = <<>>
  \/ \E i \in 1..Len(node.children) :
       /\ node.children[i].name = Head(rest)
       /\ Descends(node.children[i], Tail(rest))

Matched(root, path) == path[1] = root.name /\ Descends(root, Tail(path))

C6_UnmatchedPathFindsNothing ==
  \A t \in TreesOfState :
    \A path \in EditPaths(t) :
      (path # <<>> /\ ~Matched(t, path)) => findNodeByPath(t, path) = null

\* C7: when the path given to updateNodeValue, addTag, deleteTag or renameTag
\* resolves to no node of the tree, the tree returned equals the input tree.
C7_UnresolvedPathChangesNothing ==
  (call.op \in EditOps /\ ~call.threw
     /\ findNodeByPath(call.input, call.path) = null)
    => call.result = call.input

\* C8: after addTag on a Compound parent the parent has exactly one child
\* called name, of the given kind and value, whether or not an entry of
\* that name existed before.
C8_AddToCompoundKeepsNamesUnique ==
  (Returned("addTag")
     /\ LET parent == findNodeByPath(call.input, call.path)
        IN IF parent = null THEN FALSE ELSE parent.type = TagType_Compound)
    => LET after == findNodeByPath(call.result, call.path)
           named == {i \in 1..Len(after.children) :
                       after.children[i].name = call.name}
       IN /\ Cardinality(named) = 1
          /\ \A i \in named :
               /\ after.children[i].type = call.type
               /\ after.children[i].value = call.value

\* C9: no edit produces a List that holds an element whose kind differs from
\* the element kind the List declares.
C9_ListElementsOfDeclaredKind ==
  \A t \in TreesOfState :
    \A n \in NodesOf(t) :
      (n.type = TagType_List /\ n.value.k = "list") =>
        \A i \in 1..Len(n.children) : n.children[i].type = n.value.v.type

\* C10: renameTag changes a node only when its immediate parent is a
\* Compound; when the parent is a List, or the path is the root path, the
\* tree returned equals the input tree.
C10_RenameOnlyUnderCompound ==
  (Returned("renameTag")
     /\ IF Len(call.path) <= 1 THEN TRUE
        ELSE LET parent == findNodeByPath(call.input, ParentPath)
             IN IF parent = null THEN FALSE ELSE parent.type = TagType_List)
    => call.result = call.input

\* the entry of a container value for a child's name: the tag's value under
\* a Compound key, the element under a List index, undefined otherwise
EntryOf(parent, childName) ==
  IF parent.type = TagType_Compound /\ parent.value.k = "compound"
  THEN getKey(parent.value, childName).value
  ELSE IF parent.type = TagType_List /\ parent.value.k = "list"
  THEN LET index == parseInt(childName)
       IN IF ~index.nan /\ index.n >= 0 /\ index.n < Len(parent.value.v.value)
          THEN parent.value.v.value[index.n + 1]
          ELSE undefined
  ELSE undefined

\* the value reached from a container value by following the segments: a
\* Compound key leads to the value of its tag, a List index to the element,
\* whatever kind the List declares for its elements
RECURSIVE ValueAt(_, _)
ValueAt(value, segments) ==
  IF segments = <<>> THEN value
  ELSE IF value.k = "compound"
  THEN ValueAt(getKey(value, Head(segments)).value, Tail(segments))
  ELSE IF value.k = "list"
  THEN ValueAt(EntryOf([type |-> TagType_List, value |-> value], Head(segments)),
               Tail(segments))
  ELSE undefined

\* updateNodeValue has returned for a path that resolved to a leaf
C11_LeafUpdated ==
  /\ Returned("updateNodeValue")
  /\ LET target == findNodeByPath(call.input, call.path)
     IN IF target = null THEN FALSE ELSE ~isContainerType(target.type)

\* C11: after updateNodeValue(root, path, v) on a path that resolves to a
\* leaf at any depth, the target holds v, the value of every ancestor on the
\* path, the new root included, has for the next segment an entry equal to
\* the value of that child, and root.value holds v at path.
C11_AncestorsHoldNewValue ==
  C11_LeafUpdated =>
    LET l == locate(call.result, call.path)
    IN /\ l.found
       /\ nodeAt(call.result, l.pos).value = call.value
       /\ \A k \in 0..(Len(l.pos) - 1) :
            LET parent == nodeAt(call.result, SubSeq(l.pos, 1, k))
                child == nodeAt(call.result, SubSeq(l.pos, 1, k + 1))
            IN EntryOf(parent, child.name) = child.value
       /\ ValueAt(call.result.value, SubSeq(call.path, 2, Len(call.path)))
            = call.value

\* a leaf three levels below the root was given a value it did not have
C11_Witness ==
  /\ C11_LeafUpdated
  /\ Len(call.path) = 4
  /\ findNodeByPath(call.input, call.path).value # call.value
  /\ findNodeByPath(call.result, call.path).value = call.value

\* C12: encoding then decoding reproduces the tag: for every well-formed tag
\* of every kind, nested Lists and Compounds, the empty List of kind End and
\* the three array kinds included, convertValue applied to
\* convertToPrismarineValue of the tag is structurally equal to the tag.
C12_EncodeDecodeReproducesTag ==
  (call.op = "convertValue" /\ call.input # null)
    => NbtTag(convertTagType(call.kind), call.result) = call.input

\* a LongArray in a List in a List, holding a negative long and one whose
\* low word has its sign bit set, has been encoded and decoded
C12_Witness ==
  /\ call.op = "convertValue"
  /\ call.input # null
  /\ call.input.type = TagType_List
  /\ call.input.value.v.type = TagType_List
  /\ \E i \in 1..Len(call.result.v.value) :
       call.result.v.value[i] =
         ListValue(TagType_LongArray,
                   <<BigInt64Array(<<-1, pow2(WordBits) - 1>>)>>)

\* C13: a Long, and each element of a LongArray, survives decoding then
\* encoding bit-exactly: for every pair (high, low) of signed words the
\* decoder delivers, negative words included, combining the pair into the
\* 64-bit value and splitting the value again yields the same pair.
C13_DecodeEncodeKeepsWords ==
  (call.op = "convertToPrismarineValue" /\ call.input # null)
    => call.result = call.input.value

\* the first two bytes of a buffer, fewer when it is shorter
FirstTwo(buffer) ==
  Uint8Array(SubSeq(buffer.v, 1, IF Len(buffer.v) < 2 THEN Len(buffer.v) ELSE 2))

\* C14: compression detection depends only on the first two bytes of the
\* buffer: gzip exactly when they are 0x1F 0x8B, zlib exactly when the first
\* is 0x78 and the second is 0x01, 0x9C or 0xDA, none otherwise, buffers
\* shorter than two bytes included.
C14_DetectionByFirstTwoBytes ==
  call.op = "detectCompression"
    => LET buffer == call.input.v
           long == Len(buffer) >= 2
       IN /\ call.result.v \in {"gzip", "zlib", "none"}
          /\ call.result.v = "gzip" <=> (long /\ buffer[1] = 31 /\ buffer[2] = 139)
          /\ call.result.v = "zlib"
               <=> (long /\ buffer[1] = 120 /\ buffer[2] \in {1, 156, 218})
          /\ detectCompression(FirstTwo(call.input)) = call.result.v

\* a three-byte zlib buffer, and a one-byte buffer holding a magic first byte
C14_Witness ==
  /\ call.op = "detectCompression"
  /\ \/ call.input = Uint8Array(<<120, 218, 31>>) /\ call.result.v = "zlib"
     \/ call.input = Uint8Array(<<31>>) /\ call.result.v = "none"

\* the slots of the header, and the location bytes a buffer holds for a slot
SlotRange == 0..(Slots - 1)
LocationBytesOf(buffer, i) ==
  {buffer.v[k] : k \in {k \in (4 * i + 1)..(4 * i + 4) : k <= Len(buffer.v)}}
PresentSlots(buffer) == {i \in SlotRange : LocationBytesOf(buffer, i) \ {0} # {}}

\* the slots in ascending order
RECURSIVE Ascending(_)
Ascending(S) ==
  IF S = {} THEN <<>>
  ELSE LET least == CHOOSE i \in S : \A j \in S : i <= j
       IN <<least>> \o Ascending(S \ {least})

\* C15: parseRegionHeader reports slot i as present exactly when its four
\* location bytes are not all zero, with the coordinates (i mod 32,
\* floor(i / 32)), each slot at most once, and the list of present chunks
\* has exactly the keys of the location map, in ascending slot order.
C15_PresentSlotsReported ==
  call.op = "parseRegionHeader"
    => LET buffer == call.input.buffer
           data == call.result.data
           info == call.result.info
           present == Ascending(PresentSlots(buffer))
       IN /\ data.availableChunks =
               [k \in 1..Len(present) |->
                  <<present[k] % RegionWidth, present[k] \div RegionWidth>>]
          /\ Len(data.chunks) = Len(data.availableChunks)
          /\ \A k \in 1..Len(data.chunks) :
               /\ data.chunks[k].key =
                    chunkKey(data.availableChunks[k][1], data.availableChunks[k][2])
               /\ data.chunks[k].value.x = data.availableChunks[k][1]
               /\ data.chunks[k].value.z = data.availableChunks[k][2]
          /\ info.chunkCount = Len(present)
          /\ \A i \in SlotRange :
               IF i \in PresentSlots(buffer)
               THEN /\ info.chunks[i + 1] # null
                    /\ info.chunks[i + 1].x = i % RegionWidth
                    /\ info.chunks[i + 1].z = i \div RegionWidth
               ELSE info.chunks[i + 1] = null

\* the content of the document a chunk holds, null when its compression
\* type is outside 1..3 or its payload does not decompress or parse
ContentOf(chunk) ==
  LET data == IF chunk.compressionType = 1 THEN ungzip(Uint8Array(chunk.payload))
              ELSE IF chunk.compressionType = 2 THEN inflate(Uint8Array(chunk.payload))
              ELSE IF chunk.compressionType = 3 THEN Ok(Uint8Array(chunk.payload))
              ELSE Threw
  IN IF data.threw THEN null ELSE orNull(nbtParse(data.value))

\* the slots whose chunk lies in the file with the length it declares
Whole(file) == Len(file.buffer.v) = Len(fileBytes(file.layout))
InsideSlots(file) ==
  {i \in SlotRange : /\ Stored(file.layout[i])
                     /\ file.layout[i].length = Len(file.layout[i].payload) + 1}
DecodableSlots(file) == {i \in InsideSlots(file) : ContentOf(file.layout[i]) # null}

\* the chunks of the slots of a sequence, one after the other
RECURSIVE BlocksOfSlots(_, _)
BlocksOfSlots(file, slots) ==
  IF slots = <<>> THEN <<>>
  ELSE chunkBlocksOf(ContentOf(file.layout[Head(slots)]),
                     Head(slots) % RegionWidth, Head(slots) \div RegionWidth)
         \o BlocksOfSlots(file, Tail(slots))

\* C16: decoding the chunks of a Region file isolates failures per chunk: a
\* chunk whose compression type is outside {1,2,3}, or whose payload fails
\* to decompress or parse, fails alone, and the batch result, the tree of
\* parseRegionFile and the block list of the viewer, still contains every
\* other present chunk that decodes, whatever the number and position of
\* the failing chunks.
C16_FailuresStayPerChunk ==
  /\ (call.op = "parseRegionFile" /\ Whole(call.input) /\
        InsideSlots(call.input) = {i \in SlotRange : call.input.layout[i] # Absent})
       => LET decodable == Ascending(DecodableSlots(call.input))
          IN call.result =
               [k \in 1..Len(decodable) |->
                  [id |-> "chunk-" \o ToString(decodable[k] % RegionWidth) \o "-"
                            \o ToString(decodable[k] \div RegionWidth),
                   name |-> chunkName(decodable[k] % RegionWidth,
                                      decodable[k] \div RegionWidth),
                   type |-> TagType_Compound,
                   value |-> ContentOf(call.input.layout[decodable[k]]).value,
                   path |-> <<"Region", chunkName(decodable[k] % RegionWidth,
                                                  decodable[k] \div RegionWidth)>>]]
  /\ (call.op = "handleSelectChunks" /\ Whole(call.input) /\
        InsideSlots(call.input) = {i \in SlotRange : call.input.layout[i] # Absent})
       => call.result =
            BlocksOfSlots(call.input, Ascending(DecodableSlots(call.input)))

\* a chunk of unknown compression type in a lower slot than a chunk that
\* decodes: the tree holds the second
C16_Witness ==
  /\ call.op = "parseRegionFile"
  /\ Whole(call.input)
  /\ \E i \in SlotRange, j \in SlotRange :
       /\ i < j
       /\ call.input.layout[i] = WellFormed(4, deflate(Document(<<5>>)))
       /\ call.input.layout[j] = WellFormed(2, deflate(Document(<<2>>)))
       /\ Len(call.result) = 1
       /\ call.result[1].value = <<2>>

\* the byte range of a chunk, offset * 4096 + 5 up to offset * 4096 + 4 +
\* length, leaves the buffer
OutsideBuffer(buffer, location) ==
  LET chunkOffset == location.offset * SectorSize
  IN \/ chunkOffset + 5 > Len(buffer.v)
     \/ chunkOffset + 4 + readInt32(buffer, chunkOffset) > Len(buffer.v)

\* C17: a chunk whose byte range falls partly or wholly outside the file
\* buffer is a failure for that chunk: readChunkData and extractChunk never
\* return a payload for it, for any of the three compression types.
C17_RangeOutsideBufferFails ==
  call.op = "readChunkData"
    => \A k \in 1..Len(call.result) :
         OutsideBuffer(call.input.buffer, call.result[k].location)
           => /\ call.result[k].payload = null
              /\ call.result[k].chunk = null

\* the sections of the chunk document an extraction was given
SectionsOf(chunk) ==
  IF chunk.chunkNBT.Level # undefined THEN chunk.chunkNBT.Level.Sections.v
  ELSE chunk.chunkNBT.sections.v

\* a byte as a value in [0, 255]
Unsigned(byte) == byte % 256

\* the 4-bit nibble for index i: byte i >> 1, the low nibble when i is
\* even, the high nibble when i is odd
NibbleOf(bytes, i) ==
  IF i % 2 = 0 THEN Unsigned(bytes[(i \div 2) + 1]) % 16
  ELSE Unsigned(bytes[(i \div 2) + 1]) \div 16

\* the id the claim gives entry i of a flat section: base | (add << 8)
IdOf(section, i) ==
  Unsigned(section.Blocks.v[i + 1])
    + (IF section.Add = undefined THEN 0 ELSE NibbleOf(section.Add.v, i) * 256)

\* the entries of a flat section that hold a non-zero id
NonZero(section) == {i \in 0..(SECTION_SIZE - 1) : IdOf(section, i) # 0}

\* C20: for a flat-format section with Y = s in the chunk (cx, cz), the
\* decoder gives one record per entry i of Blocks with a non-zero id, at
\* (cx * 16 + i mod 16, s * 16 + floor(i / 256), cz * 16 + floor(i / 16) mod
\* 16); a section with Y = 4 whose only non-zero id is Blocks[0] = 1, in
\* chunk (0, 0), gives exactly one record, at (0, 64, 0) with id 1.
C20_FlatBlocksAtTheirPositions ==
  (call.op = "extractBlocks" /\ SectionsOf(call.input)[1].Blocks # undefined)
    => LET section == SectionsOf(call.input)[1]
           cx == call.input.regionChunkX
           cz == call.input.regionChunkZ
           entries == Ascending(NonZero(section))
       IN /\ Len(call.result) = Len(entries)
          /\ \A k \in 1..Len(entries) :
               /\ call.result[k].position =
                    <<(cx * 16) + (entries[k] % 16),
                      (section.Y.v * 16) + (entries[k] \div 256),
                      (cz * 16) + ((entries[k] \div 16) % 16)>>
               /\ (section.Add = undefined /\ section.Blocks.v[entries[k] + 1] > 0)
                    => call.result[k].blockId = Num(section.Blocks.v[entries[k] + 1])

C20_Witness ==
  /\ call.op = "extractBlocks"
  /\ call.input.regionChunkX = 0
  /\ call.input.regionChunkZ = 0
  /\ SectionsOf(call.input)[1].Blocks = bytesWith({<<0, 1>>})
  /\ SectionsOf(call.input)[1].Y = Num(4)
  /\ Len(call.result) = 1
  /\ call.result[1].position = <<0, 64, 0>>
  /\ call.result[1].blockId = Num(1)

\* the name of a palette entry
NameOf(block) == IF block.k = "string" THEN block ELSE block.Name

\* C19: a 1.18+ section with a non-empty palette and no data is filled
\* with palette[0]: SECTION_SIZE records named palette[0] (the prefix
\* "minecraft:" dropped) when that block is not air, none when it is
\* minecraft:air or air, for palettes of one and of several entries.
C19_NoDataFillsWithFirstEntry ==
  (/\ call.op = "extractBlocks"
   /\ SectionsOf(call.input)[1].block_states # undefined
   /\ SectionsOf(call.input)[1].block_states.palette.v # <<>>
   /\ SectionsOf(call.input)[1].block_states.data \in {undefined, Array(<<>>)})
    => LET first == SectionsOf(call.input)[1].block_states.palette.v[1]
       IN IF NameOf(first) \in {air, minecraftAir}
          THEN call.result = <<>>
          ELSE /\ Len(call.result) = SECTION_SIZE
               /\ \A k \in 1..SECTION_SIZE :
                    call.result[k].blockName
                      = Str(SelectSeq(NameOf(first).v, LAMBDA piece : piece # minecraft))

\* a palette of several entries whose first is stone, no data: all of the
\* section is stone
C19_Witness ==
  /\ call.op = "extractBlocks"
  /\ SectionsOf(call.input)[1].block_states # undefined
  /\ SectionsOf(call.input)[1].block_states.palette = Array(<<stone, dirt>>)
  /\ SectionsOf(call.input)[1].block_states.data = undefined
  /\ Len(call.result) = SECTION_SIZE
  /\ call.result[SECTION_SIZE].blockName = Str(<<"stone">>)

\* the palette and the words of the packed section of a chunk
PaletteOf(chunk) ==
  IF SectionsOf(chunk)[1].block_states # undefined
  THEN SectionsOf(chunk)[1].block_states.palette.v
  ELSE SectionsOf(chunk)[1].Palette.v

WordsOf(chunk) ==
  IF SectionsOf(chunk)[1].block_states # undefined
  THEN SectionsOf(chunk)[1].block_states.data.v
  ELSE SectionsOf(chunk)[1].BlockStates.v

\* what the claim expects of entry i of a packed section: nothing for air,
\* else the position of i and the name of the block at the packed index
ExpectedOf(block, i, Y) ==
  IF NameOf(block) \in {air, minecraftAir} THEN <<>>
  ELSE <<<<i % 16, (Y * 16) + (i \div 256), (i \div 16) % 16>>,
         Str(SelectSeq(NameOf(block).v, LAMBDA piece : piece # minecraft))>>

ExpectedBlocks(palette, indices, Y) ==
  SelectSeq([k \in 1..SECTION_SIZE |->
               ExpectedOf(palette[indices[k] + 1], k - 1, Y)],
            LAMBDA expected : expected # <<>>)

\* a word whose top bit is set
Negative(word) == IF word.k = "bigint" THEN word.v < 0 ELSE word.v[1].v < 0

\* C18: SECTION_SIZE palette indices packed into words, entry i in word
\* floor(i / entriesPerWord) at bit (i mod entriesPerWord) * bitsPerEntry
\* with bitsPerEntry = max(4, ceil(log2(P))), are decoded to the same
\* indices: the record of entry i is at the position of i and names the
\* block of the palette at the index that was packed, in both palette
\* formats, for words given as bigint and as [high, low], words with the
\* top bit set included.
C18_PackedIndicesRecovered ==
  (call.op = "extractBlocks" /\ call.value # undefined)
    => [k \in 1..Len(call.result) |->
          <<call.result[k].position, call.result[k].blockName>>]
         = ExpectedBlocks(PaletteOf(call.input), call.value.v,
                          ToInt32(SectionsOf(call.input)[1].Y))

\* every word of the section has its top bit set, and every entry came back
C18_Witness ==
  /\ call.op = "extractBlocks"
  /\ call.value # undefined
  /\ Len(PaletteOf(call.input)) = 16
  /\ \A w \in 1..Len(WordsOf(call.input)) : Negative(WordsOf(call.input)[w])
  /\ Len(call.result) = SECTION_SIZE
  /\ call.result[SECTION_SIZE].blockName = Str(<<"block", "15">>)

\* nothing is said about the properties of a record
Unstated == [k |-> "unstated", v |-> 0]

\* the Properties of a palette entry with each value as a string; Unstated
\* for an entry that carries none
StringifiedOf(block) ==
  IF block.k = "object"
  THEN IF block.Properties # undefined
       THEN [k |-> "object",
             v |-> [j \in 1..Len(block.Properties.v) |->
                      [key |-> block.Properties.v[j].key,
                       value |-> Str(block.Properties.v[j].value.v)]]]
       ELSE Unstated
  ELSE Unstated

\* the properties the records of a packed section are to have, record by
\* record
ExpectedProperties(palette, indices) ==
  SelectSeq([k \in 1..SECTION_SIZE |->
               IF NameOf(palette[indices[k] + 1]) \in {air, minecraftAir}
               THEN <<>>
               ELSE StringifiedOf(palette[indices[k] + 1])],
            LAMBDA expected : expected # <<>>)

PropertiesAgree(records, expected) ==
  /\ Len(records) = Len(expected)
  /\ \A k \in 1..Len(records) :
       expected[k] = Unstated \/ records[k].properties = expected[k]

\* the section of the call is one of the 1.18+ format with a palette
NestedSection ==
  /\ call.op = "extractBlocks"
  /\ SectionsOf(call.input)[1].block_states # undefined
  /\ SectionsOf(call.input)[1].block_states.palette.v # <<>>

\* C21: every record of a 1.18+ section whose palette entry carries
\* Properties has them, each value as a string, in its properties field,
\* on the path that decodes packed data and on the path that fills the
\* section with palette[0].
C21_PropertiesOnEveryPath ==
  NestedSection =>
    IF call.value # undefined
    THEN PropertiesAgree(call.result,
                         ExpectedProperties(PaletteOf(call.input), call.value.v))
    ELSE \A k \in 1..Len(call.result) :
           \/ StringifiedOf(PaletteOf(call.input)[1]) = Unstated
           \/ call.result[k].properties = StringifiedOf(PaletteOf(call.input)[1])

\* the chunk coordinates extractBlocks works with
ChunkXOf(chunk) ==
  IF chunk.chunkNBT.Level # undefined THEN chunk.chunkNBT.Level.xPos.v
  ELSE chunk.regionChunkX

ChunkZOf(chunk) ==
  IF chunk.chunkNBT.Level # undefined THEN chunk.chunkNBT.Level.zPos.v
  ELSE chunk.regionChunkZ

\* the index in its section of the entry a record was emitted for
IndexOf(record, chunk) ==
  (record.position[1] - (ChunkXOf(chunk) * 16))
    + ((record.position[3] - (ChunkZOf(chunk) * 16)) * 16)
    + ((record.position[2] - (SectionsOf(chunk)[1].Y.v * 16)) * 256)

\* C28: in the flat format the emitted id is base | (add << 8), with base
\* the block byte as a value in [0, 255] and add the nibble of Add for the
\* index (low nibble for an even index, high nibble for an odd one); the
\* nibbles are in [0, 15] and the ids in [1, 4095], also for bytes of 128
\* and above that come as negative numbers.
C28_IdFromByteAndNibble ==
  (call.op = "extractBlocks" /\ SectionsOf(call.input)[1].Blocks # undefined)
    => \A k \in 1..Len(call.result) :
         /\ call.result[k].blockId
              = Num(IdOf(SectionsOf(call.input)[1], IndexOf(call.result[k], call.input)))
         /\ call.result[k].blockId.v \in 1..4095
         /\ call.result[k].blockData \in 0..15

\* the header entry of a slot as the claim reads it: unsigned, big-endian;
\* the timestamp is given by its first byte and its last three, the whole
\* being first * 2^24 + rest
HeaderEntry(buffer, i, entry) ==
  /\ entry.offset = (buffer.v[4 * i + 1] * 65536) + (buffer.v[4 * i + 2] * 256)
                      + buffer.v[4 * i + 3]
  /\ entry.sectorCount = Num(buffer.v[4 * i + 4])
  /\ entry.timestamp >= 0
  /\ entry.timestamp \div 16777216 = buffer.v[SectorSize + 4 * i + 1]
  /\ entry.timestamp % 16777216
       = (buffer.v[SectorSize + 4 * i + 2] * 65536)
           + (buffer.v[SectorSize + 4 * i + 3] * 256)
           + buffer.v[SectorSize + 4 * i + 4]

\* C27: both parseRegionHeader give, for every present slot of a file that
\* holds the whole header, offset = b0 * 65536 + b1 * 256 + b2 and
\* sectorCount = b3 of the location entry, and timestamp = t0 * 2^24 +
\* t1 * 2^16 + t2 * 2^8 + t3 of the timestamp entry, a value in [0, 2^32),
\* also when t0 >= 128.
C27_HeaderFieldsUnsigned ==
  (call.op = "parseRegionHeader" /\ Len(call.input.buffer.v) >= 2 * SectorSize)
    => /\ \A k \in 1..Len(call.result.data.chunks) :
            HeaderEntry(call.input.buffer,
                        call.result.data.chunks[k].value.x
                          + (call.result.data.chunks[k].value.z * RegionWidth),
                        call.result.data.chunks[k].value)
       /\ \A i \in SlotRange :
            call.result.info.chunks[i + 1] # null
              => HeaderEntry(call.input.buffer, i, call.result.info.chunks[i + 1])

\* the value the new root holds for the parent of the edited node
ParentInRoot(parentPath) == ValueAt(call.result.value, Tail(parentPath))

\* renameTag of a node below a Compound that is not the root: the root's
\* value holds the new name and no longer the old one
C25_RenameReachesRoot ==
  (/\ Returned("renameTag")
   /\ Len(call.path) >= 3
   /\ call.name # NodeName
   /\ findNodeByPath(call.input, call.path) # null
   /\ findNodeByPath(call.input, ParentPath).type = TagType_Compound)
    => /\ ParentInRoot(ParentPath).k = "compound"
       /\ call.name \in DOMAIN ParentInRoot(ParentPath).v
       /\ NodeName \notin DOMAIN ParentInRoot(ParentPath).v

\* addTag below a container that is not the root: the root's value holds
\* the new tag under its name, or as the last element of the List
C25_AddReachesRoot ==
  (/\ Returned("addTag")
   /\ Len(call.path) >= 2
   /\ findNodeByPath(call.input, call.path) # null)
    => LET parent == findNodeByPath(call.input, call.path)
       IN IF parent.type = TagType_Compound
          THEN /\ ParentInRoot(call.path).k = "compound"
               /\ getKey(ParentInRoot(call.path), call.name)
                    = NbtTag(call.type, call.value)
          ELSE IF parent.type = TagType_List
          THEN /\ ParentInRoot(call.path).k = "list"
               /\ Len(ParentInRoot(call.path).v.value) = Len(parent.children) + 1
               /\ ParentInRoot(call.path).v.value[Len(parent.children) + 1]
                    = call.value
          ELSE TRUE

\* deleteTag of a node below a container that is not the root: the root's
\* value no longer holds the name, or holds a List one element shorter
C25_DeleteReachesRoot ==
  (/\ Returned("deleteTag")
   /\ Len(call.path) >= 3
   /\ findNodeByPath(call.input, call.path) # null)
    => LET parent == findNodeByPath(call.input, ParentPath)
       IN IF parent.type = TagType_Compound
          THEN /\ ParentInRoot(ParentPath).k = "compound"
               /\ NodeName \notin DOMAIN ParentInRoot(ParentPath).v
          ELSE /\ ParentInRoot(ParentPath).k = "list"
               /\ Len(ParentInRoot(ParentPath).v.value) = Len(parent.children) - 1

\* C25: an edit at any depth reaches the serialized document: after
\* renameTag, addTag or deleteTag on a node whose parent is not the root,
\* the value of the new root, which is what serializeNbtTree writes,
\* reflects the edit; after renameTag it holds the new name and no longer
\* the old name at that path.
C25_EditReachesRootValue ==
  /\ C25_RenameReachesRoot
  /\ C25_AddReachesRoot
  /\ C25_DeleteReachesRoot

\* every child below the node has the path of its parent followed by its
\* own name
RECURSIVE PathsFollowNames(_)
PathsFollowNames(node) ==
  \A i \in 1..Len(node.children) :
    /\ node.children[i].path = Append(node.path, node.children[i].name)
    /\ PathsFollowNames(node.children[i])

\* C26: in every tree reachable from a freshly parsed tree by addTag,
\* deleteTag and renameTag, every node has the path of its parent followed
\* by its own name (the descendants of a renamed Compound child and of
\* renumbered List children included), so findNodeByPath(root, n.path)
\* returns n.
C26_PathsStayValid ==
  \A t \in TreesOfState :
    /\ PathsFollowNames(t)
    /\ \A n \in NodesOf(t) : findNodeByPath(t, n.path) = n

\* C24: node identities are unique and stable: in every tree an editor
\* holds (the main editor after a load, the NBT editor dialog after it
\* opens) and after any sequence of edits on it, no two nodes have the same
\* id, a node keeps its id across edits, and the id of a deleted node is
\* never given to a node added later.
RECURSIVE IdSeq(_)
RECURSIVE IdSeqOfAll(_)
\* the ids of the nodes of a tree, one entry for each node
IdSeq(node) == <<node.id>> \o IdSeqOfAll(node.children)
IdSeqOfAll(children) ==
  IF children = <<>> THEN <<>>
  ELSE IdSeq(Head(children)) \o IdSeqOfAll(Tail(children))

TimesIn(ids, id) == Cardinality({i \in 1..Len(ids) : ids[i] = id})

PairwiseDistinctIds(root) ==
  LET ids == IdSeq(root) IN \A i, j \in 1..Len(ids) : ids[i] = ids[j] => i = j

\* every node of `from` is a node of `to`, under the same id
KeepsIds(from, to) ==
  \A n \in NodesOf(from) :
    \E m \in NodesOf(to) : m.id = n.id /\ m.type = n.type

\* the ids an addTag call gave to the nodes it added
AddedIds ==
  {id \in IdsOf(call.result) :
     TimesIn(IdSeq(call.result), id) > TimesIn(IdSeq(call.input), id)}

C24_IdsUniqueAndStable ==
  /\ \A t \in TreesOfState : PairwiseDistinctIds(t)
  /\ \A op \in {"updateNodeValue", "renameTag", "addTag"} :
       Returned(op) => KeepsIds(call.input, call.result)
  /\ \A op \in {"updateNodeValue", "renameTag", "deleteTag"} :
       Returned(op) => KeepsIds(call.result, call.input)
  /\ Returned("addTag") => AddedIds \cap retired = {}

\* the dialog's part of C24 alone
C24_DialogIdsUnique ==
  \A t \in TreesOfState : PairwiseDistinctIds(t)

\* an addTag call has added a node after another node was deleted
C24_Witness ==
  /\ Returned("addTag")
  /\ AddedIds # {}
  /\ retired # {}

\* C22: Region files are read-only: while the loaded file is a Region file,
\* no sequence of editor operations makes saveFile emit a file, and
\* serializeRegionFile fails for every input.
RegionTree(root) == root # null /\ root.id = regionRootId

C22_RegionFilesReadOnly ==
  /\ (call.op = "saveFile" /\ RegionTree(call.input)) => call.result = null
  /\ call.op = "serializeRegionFile" => call.threw

\* the save button was clicked on a Region file with unsaved edits
C22_Witness ==
  /\ call.op = "saveFile"
  /\ RegionTree(call.input)
  /\ modified
  /\ isRegion

\* C30: overlapping loads resolve to the last request: if loadFile(A) is
\* started and loadFile(B) is started before A completes, then once both
\* have completed, in either completion order, the editor's tree, fileInfo
\* and isRegion are those of B, and the node ids inside the shown tree are
\* pairwise distinct.
ShowsFile(file) ==
  IF isRegionFile(file.name)
  THEN /\ RegionTree(tree)
       /\ tree.name = file.name
       /\ fileInfo = RegionFileInfo(file)
       /\ isRegion
  ELSE IF file.parsed.threw
  THEN tree = null /\ fileInfo = null
  ELSE /\ tree # null
       /\ ~RegionTree(tree)
       /\ tree.value = file.parsed.value
       /\ fileInfo = NbtFileInfo(file)
       /\ ~isRegion

C30_LastRequestWins ==
  (loads = <<>> /\ latest # null) =>
    /\ ShowsFile(latest)
    /\ tree # null => PairwiseDistinctIds(tree)

\* the ids alone
C30_ShownIdsDistinct ==
  (loads = <<>> /\ tree # null) => PairwiseDistinctIds(tree)

\* the file asked for last is shown after the load before it has completed
\* second
C30_Witness ==
  /\ loads = <<>>
  /\ latest = RegionMca
  /\ ShowsFile(RegionMca)

\* C23: cut then paste moves a tag: after cutNode(n) followed by
\* pasteNode(p) in the editor, the current tree has no node left at n's
\* original path and has a copy of n as a child of p; after copyNode(n)
\* followed by pasteNode(p) the original stays and a copy is added under p.
\* The clipboard holds n with its path; p is a container of the tree that
\* is not n and does not lie inside n.
IsPrefix(s, t) == Len(s) <= Len(t) /\ SubSeq(t, 1, Len(s)) = s

Pasted(kind) ==
  /\ call.op = "pasteNode"
  /\ call.kind = kind
  /\ findNodeByPath(call.input, call.path) # null
  /\ isContainerType(findNodeByPath(call.input, call.path).type)
  /\ ~IsPrefix(clipboard.path, call.path)

\* a node that the tree before the paste did not have, with the type and
\* the value of the clipboard, is a child of the node at p
CopyUnder(p) ==
  LET parent == findNodeByPath(tree, p)
  IN /\ parent # null
     /\ \E i \in 1..Len(parent.children) :
          /\ parent.children[i].type = clipboard.type
          /\ parent.children[i].value = clipboard.value
          /\ parent.children[i].id \notin IdsOf(call.input)

C23_CopyPasteAdds ==
  Pasted("copy") =>
    /\ findNodeByPath(tree, clipboard.path) # null
    /\ findNodeByPath(tree, clipboard.path).id = clipboard.id
    /\ CopyUnder(call.path)

C23_CutPasteMoves ==
  Pasted("cut") =>
    /\ findNodeByPath(tree, clipboard.path) = null
    /\ CopyUnder(call.path)

C23_PasteMovesOrCopies == C23_CopyPasteAdds /\ C23_CutPasteMoves

\* a cut node was pasted under another container
C23_Witness == Pasted("cut")

(***************************************************************************)
(* The save-folder view: the save store (save-store.ts), the folder        *)
(* parser and the ZIP export (save-parser.ts), and the editors of the      *)
(* page (save/page.tsx).  A path is the sequence of its segments, so       *)
(* "World/level.dat" is <<"World", "level.dat">>; the bytes of a file are  *)
(* a number.                                                               *)
(***************************************************************************)
\* String.prototype.toLowerCase on a path segment
toLowerCase(segment) ==
  IF segment = "World" THEN "world"
  ELSE IF segment = "P1.dat" THEN "p1.dat"
  ELSE segment

pathToLowerCase(path) == [i \in 1..Len(path) |-> toLowerCase(path[i])]

\* path.endsWith(suffix), for the suffixes "level.dat" and ".dat", neither
\* of which holds a "/"
endsWith(path, suffix) ==
  LET last == path[Len(path)]
  IN IF suffix = "level.dat" THEN last = "level.dat"
     ELSE last \in {"level.dat", "p1.dat", "raids.dat"}

\* path.includes("/dir/")
includes(path, dir) == \E i \in 2..(Len(path) - 1) : path[i] = dir

\* the bytes an editor may save
FileData == {1, 2}

\* a File of the folder input: webkitRelativePath starts with the name of
\* the selected folder
File(relativePath, bytes) ==
  [name |-> relativePath[Len(relativePath)],
   webkitRelativePath |-> relativePath,
   bytes |-> bytes]

FolderWorld ==
  << File(<<"World", "level.dat">>, 10),
     File(<<"World", "playerdata", "P1.dat">>, 11),
     File(<<"World", "data", "raids.dat">>, 12),
     File(<<"World", "session.lock">>, 13) >>

FolderPlain ==
  << File(<<"w", "data", "raids.dat">>, 20),
     File(<<"w", "level.dat">>, 21) >>

Folders == {FolderWorld, FolderPlain}

\* handleFolderSelect: the FileEntry array built from the FileList
FileEntries(files) ==
  [i \in 1..Len(files) |->
     [name |-> files[i].name,
      path |-> pathToLowerCase(files[i].webkitRelativePath),
      file |-> files[i]]]

Indices(files) == [i \in 1..Len(files) |-> i]

\* save-parser.ts parseSaveFolder, as far as the editors and the export use
\* its result; `entry` records which FileEntry a parsed document was read
\* from
parseSaveFolder(files) ==
  LET isLevelDat(i) == endsWith(pathToLowerCase(files[i].path), "level.dat")
      isPlayer(i) == /\ includes(pathToLowerCase(files[i].path), "playerdata")
                     /\ endsWith(pathToLowerCase(files[i].path), ".dat")
      isDataFile(i) == /\ includes(pathToLowerCase(files[i].path), "data")
                       /\ endsWith(pathToLowerCase(files[i].path), ".dat")
      levels == SelectSeq(Indices(files), isLevelDat)
      playerEntries == SelectSeq(Indices(files), isPlayer)
      dataEntries == SelectSeq(Indices(files), isDataFile)
  IN [levelData |-> IF levels = <<>> THEN null
                    ELSE [raw |-> files[levels[1]].file.bytes, entry |-> levels[1]],
      players |-> [k \in 1..Len(playerEntries) |->
                     [filename |-> files[playerEntries[k]].name,
                      raw |-> files[playerEntries[k]].file.bytes,
                      entry |-> playerEntries[k]]],
      dataFiles |-> [k \in 1..Len(dataEntries) |->
                       [name |-> files[dataEntries[k]].name,
                        path |-> pathToLowerCase(files[dataEntries[k]].path),
                        raw |-> files[dataEntries[k]].file.bytes,
                        entry |-> dataEntries[k]]],
      files |-> files]

\* Map.prototype.set on a copy of the map
MapSet(map, key, value) ==
  [k \in (DOMAIN map) \cup {key} |-> IF k = key THEN value ELSE map[k]]

\* save-store.ts markFileModified
markFileModified(path, data) == MapSet(modifiedFiles, path, data)

\* handleEditorSave for the file read from FileEntry `entry`
handleEditorSave(path, data, entry) ==
  /\ modifiedFiles' = markFileModified(path, data)
  /\ edited' = MapSet(edited, entry, data)

\* handleFolderSelect with setSave, which empties modifiedFiles
handleFolderSelect(files) ==
  /\ editor = null
  /\ save' = parseSaveFolder(FileEntries(files))
  /\ modifiedFiles' = <<>>
  /\ edited' = <<>>
  /\ UNCHANGED <<editor, zip>>

NoPlayer == [filename |-> "", raw |-> 0, entry |-> 0]

\* handleEditLevelDat: the NBT editor dialog opens on level.dat
handleEditLevelDat ==
  /\ editor = null
  /\ save # null
  /\ save.levelData # null
  /\ editor' = [kind |-> "nbt", filePath |-> <<"level.dat">>,
                player |-> NoPlayer, entry |-> save.levelData.entry]
  /\ UNCHANGED <<save, modifiedFiles, edited, zip>>

\* handleGuiEditLevelDat: the level.dat editor opens
handleGuiEditLevelDat ==
  /\ editor = null
  /\ save # null
  /\ save.levelData # null
  /\ editor' = [kind |-> "level", filePath |-> <<>>,
                player |-> NoPlayer, entry |-> save.levelData.entry]
  /\ UNCHANGED <<save, modifiedFiles, edited, zip>>

\* handleEditPlayer: the NBT editor dialog opens on a player file
handleEditPlayer(player) ==
  /\ editor = null
  /\ editor' = [kind |-> "nbt", filePath |-> <<"playerdata", player.filename>>,
                player |-> NoPlayer, entry |-> player.entry]
  /\ UNCHANGED <<save, modifiedFiles, edited, zip>>

\* handleGuiEditPlayer: the player editor opens
handleGuiEditPlayer(player) ==
  /\ editor = null
  /\ editor' = [kind |-> "player", filePath |-> <<>>,
                player |-> player, entry |-> player.entry]
  /\ UNCHANGED <<save, modifiedFiles, edited, zip>>

\* handleEditDataFile: the NBT editor dialog opens on a data file
handleEditDataFile(dataFile) ==
  /\ editor = null
  /\ editor' = [kind |-> "nbt", filePath |-> dataFile.path,
                player |-> NoPlayer, entry |-> dataFile.entry]
  /\ UNCHANGED <<save, modifiedFiles, edited, zip>>

\* nbt-editor-dialog.tsx handleSave: onSave(filePath, data), then the dialog
\* closes
NbtEditorDialog_handleSave(data) ==
  /\ editor # null
  /\ editor.kind = "nbt"
  /\ handleEditorSave(editor.filePath, data, editor.entry)
  /\ editor' = null
  /\ UNCHANGED <<save, zip>>

\* level-editor.tsx handleSave
LevelEditor_handleSave(data) ==
  /\ editor # null
  /\ editor.kind = "level"
  /\ handleEditorSave(<<"level.dat">>, data, editor.entry)
  /\ editor' = null
  /\ UNCHANGED <<save, zip>>

\* player-editor.tsx handleSave
PlayerEditor_handleSave(data) ==
  /\ editor # null
  /\ editor.kind = "player"
  /\ handleEditorSave(<<"playerdata", editor.player.filename>>, data, editor.entry)
  /\ editor' = null
  /\ UNCHANGED <<save, zip>>

\* GameRulesView handleSave, on the game-rules tab of the page
GameRulesView_handleSave(data) ==
  /\ editor = null
  /\ save # null
  /\ save.levelData # null
  /\ handleEditorSave(<<"level.dat">>, data, save.levelData.entry)
  /\ UNCHANGED <<save, editor, zip>>

\* an editor is closed without saving
closeEditor ==
  /\ editor # null
  /\ editor' = null
  /\ UNCHANGED <<save, modifiedFiles, edited, zip>>

\* save-parser.ts downloadSaveAsZip: the files of the ZIP, in the order of
\* save.files; a Uint8Array is truthy whatever it holds
downloadSaveAsZip(store, modifiedMap) ==
  [i \in 1..Len(store.files) |->
     [path |-> store.files[i].path,
      data |-> IF store.files[i].path \in DOMAIN modifiedMap
               THEN modifiedMap[store.files[i].path]
               ELSE store.files[i].file.bytes]]

\* handleDownload and the store's downloadAsZip; the download is kept with
\* the files it was made from and the data the editors had saved by then
handleDownload ==
  /\ editor = null
  /\ save # null
  /\ zip' = [files |-> downloadSaveAsZip(save, modifiedFiles),
             of |-> save.files,
             edited |-> edited]
  /\ UNCHANGED <<save, modifiedFiles, editor, edited>>

zipOther == <<tree, nodeIdCounter, call, edits, heapVars, retired, hookVars,
              clipVars, loads, latest>>

NextZip ==
  \/ /\ \E files \in Folders : handleFolderSelect(files)
     /\ UNCHANGED zipOther
  \/ /\ handleEditLevelDat
     /\ UNCHANGED zipOther
  \/ /\ handleGuiEditLevelDat
     /\ UNCHANGED zipOther
  \/ /\ save # null
     /\ \E k \in 1..Len(save.players) : handleEditPlayer(save.players[k])
     /\ UNCHANGED zipOther
  \/ /\ save # null
     /\ \E k \in 1..Len(save.players) : handleGuiEditPlayer(save.players[k])
     /\ UNCHANGED zipOther
  \/ /\ save # null
     /\ \E k \in 1..Len(save.dataFiles) : handleEditDataFile(save.dataFiles[k])
     /\ UNCHANGED zipOther
  \/ /\ \E data \in FileData : NbtEditorDialog_handleSave(data)
     /\ UNCHANGED zipOther
  \/ /\ \E data \in FileData : LevelEditor_handleSave(data)
     /\ UNCHANGED zipOther
  \/ /\ \E data \in FileData : PlayerEditor_handleSave(data)
     /\ UNCHANGED zipOther
  \/ /\ \E data \in FileData : GameRulesView_handleSave(data)
     /\ UNCHANGED zipOther
  \/ /\ closeEditor
     /\ UNCHANGED zipOther
  \/ /\ handleDownload
     /\ UNCHANGED zipOther

SpecZip == Init /\ [][NextZip]_vars

\* the data the downloaded ZIP should hold for file i of the save
ExpectedData(i) ==
  IF i \in DOMAIN zip.edited THEN zip.edited[i] ELSE zip.of[i].file.bytes

\* C29: every file saved from an editor of the save-folder view is in the
\* downloaded ZIP with the saved data, and every file never saved from an
\* editor is there with its original bytes.
C29_EditedFilesInZip ==
  zip # null =>
    \A i \in 1..Len(zip.files) : zip.files[i].data = ExpectedData(i)

\* C29, second half: a file never saved from an editor keeps its bytes
C29_UntouchedFilesKept ==
  zip # null =>
    \A i \in (1..Len(zip.files)) \ DOMAIN zip.edited :
       zip.files[i].data = zip.of[i].file.bytes

\* C29 for the data files, whose dialog is opened with the path of the entry
C29_DataFilesInZip ==
  zip # null =>
    \A i \in DOMAIN zip.edited :
       includes(zip.of[i].path, "data") => zip.files[i].data = zip.edited[i]

\* a ZIP was downloaded after level.dat was saved from an editor
C29_Witness ==
  /\ zip # null
  /\ \E i \in DOMAIN zip.edited : endsWith(zip.of[i].path, "level.dat")

====
